---- MODULE Spec2Model ----
(***************************************************************************)
(* A model of hidtools/hid.py: the item codec (HidRDescItem), the          *)
(* descriptor evaluator (ReportDescriptor._parse_item), the field packer   *)
(* (HidField._get_value / _set_value) and report synthesis                 *)
(* (HidReport.format_report).                                              *)
(*                                                                         *)
(* Python integers are unbounded.  Item values and bit strings are kept as *)
(* Int where they stay below 2^31; 32-bit composite usages                 *)
(* (page << 16 | id) are kept as pairs <<page, id>> of 16-bit halves.      *)
(***************************************************************************)
EXTENDS Integers, Sequences, FiniteSets, TLC

VARIABLES
    \* HidRDescItem.from_bytes / ReportDescriptor.from_bytes
    rdesc,          \* the byte sequence handed to from_bytes
    idx,            \* loop index of HidRDescItem.from_bytes (0-based)
    items,          \* the items parsed so far
    pstatus,        \* "parsing", "parsed", "built" or the exception raised
    \* ReportDescriptor.__init__ / _parse_item
    rd,             \* the ReportDescriptor under construction
    nitems,         \* number of items handed to _parse_item so far
    npush,          \* number of Push items processed
    npop,           \* number of Pop items processed
    snaps,          \* values of the global record at each unmatched Push
    popped,         \* values of the global record at the Push the last Pop matched
    sawC5,          \* a Feature item with terminal usage 0xFF0000C5 was seen
    lastItem,       \* the branch of _parse_item taken last ("other": none)
    \* HidField._set_value / _get_value
    fld,            \* the HidField in use by the packer
    report,         \* the report buffer handed to the packer
    written,        \* the value last handed to set_values
    readback,       \* the result of the last get_values
    fstatus,        \* "fresh", "set", "read" (after a write), "peeked"
                    \* (read of the fresh buffer) or the exception raised
    \* HidReport.format_report, one call per thread
    hidReport,      \* the HidReport, with prev_seen_usages / prev_collection
    pc,             \* per thread: "idle", "loop", "done" or the exception
    cur,            \* per thread: index of the next field of the for loop
    data,           \* per thread: the caller's list of data frames
    global_data,    \* per thread: the caller's global frame
    r,              \* per thread: the payload under construction
    data0,          \* per thread: the list of data frames as first handed in
    picked,         \* per thread: per field written, the field's index and
                    \* the head frame at the moment its value was looked up
    \* ReportDescriptor.get / get_str and HidReport.get_str
    payload,        \* the report bytes handed to get_str (its `data`)
    split_lines,    \* the split_lines argument
    got,            \* what ReportDescriptor.get returned
    output,         \* the text rendered so far, piece by piece
    sep,            \* the separator to put before the next piece
    prev,           \* the field rendered last (NoneVal: none)
    di,             \* index of the next field of the loop of get_str
    dstatus,        \* "idle", "got", "loop", "done", "None" or the exception
    \* get_human_descr / from_human_descr
    text,           \* the lines pretty-printed from the items, or given
    titems,         \* the items from_human_descr made of the lines so far
    text2,          \* the lines pretty-printed from titems
    tstatus,        \* "idle", "text", "parsing", "parsed", "dumped" or the
                    \* exception raised
    \* hidtools.uhid
    uhid,           \* per device: _name, _rdesc, _info (NoneVal: unset),
                    \* _ready, _is_destroyed and the numbers of
                    \* device_nodes and hidraw_nodes
    cls_devices,    \* UHIDDevice._devices: the devices constructed and
                    \* not destroyed, in order
    cls_poll,       \* the fds registered with UHIDDevice._poll
    fd_written,     \* per device: the messages written to its uhid fd
    fd_events,      \* per fd: the events waiting to be read from it
    fd_cond,        \* the fds that report a condition other than POLLIN
    dpc,            \* where dispatch stands: "idle", "poll", "for" or
                    \* "poll_again"
    timeout,        \* the timeout argument of the dispatch call
    polled,         \* what is left of the list the last poll returned
    had_data,       \* the local had_data of dispatch
    handled,        \* how many handlers the current dispatch call has run
    returned,       \* what the last dispatch call returned: "none" (not
                    \* yet), "True" or "False"
    raised,         \* how the last call of a device method ended: "none",
                    \* "ok" or the exception
    arrived         \* how many events the kernel and udev produced so far

parseVars == <<rdesc, idx, items, pstatus>>
evalVars == <<rd, nitems, npush, npop, snaps, popped, sawC5, lastItem>>
packVars == <<fld, report, written, readback, fstatus>>
fmtVars == <<hidReport, pc, cur, data, global_data, r, data0, picked>>
decVars == <<payload, split_lines, got, output, sep, prev, di, dstatus>>
textVars == <<text, titems, text2, tstatus>>
uhidVars == <<uhid, cls_devices, cls_poll, fd_written, fd_events, fd_cond, dpc, timeout, polled, had_data, handled, returned, raised, arrived>>
vars == <<rdesc, idx, items, pstatus, rd, nitems, npush, npop, snaps, popped,
          sawC5, lastItem, fld, report, written, readback, fstatus, hidReport, pc,
          cur, data, global_data, r, data0, picked, payload, split_lines, got,
          output, sep, prev, di, dstatus, text, titems, text2, tstatus, uhid,
          cls_devices, cls_poll, fd_written, fd_events, fd_cond, dpc, timeout, polled, had_data, handled,
          returned, raised, arrived>>

-----------------------------------------------------------------------------
(* Bounds of the model *)

\* longest byte sequence handed to from_bytes
MaxBytes == 5

\* longest item sequence handed to the evaluator
MaxItems == 4

\* longest list of data frames handed to format_report
MaxFrames == 2

\* largest number of fields appended to a report
MaxFields == 2

\* largest bit size and largest start bit of a field handed to the packer
MaxSize == 9
MaxStart == 9

-----------------------------------------------------------------------------
(* Arithmetic helpers: Python's bit operators.  A negative integer is an  *)
(* infinite two's-complement bit string; \div and % round towards minus   *)
(* infinity, as Python's >> and & do.                                     *)

RECURSIVE Pow2(_)
Pow2(n) == IF n = 0 THEN 1 ELSE 2 * Pow2(n - 1)

RECURSIVE BitAnd(_, _)
BitAnd(a, b) ==
    IF a = 0 \/ b = 0 THEN 0
    ELSE IF a = -1 THEN b
    ELSE IF b = -1 THEN a
    ELSE (IF a % 2 = 1 /\ b % 2 = 1 THEN 1 ELSE 0) + 2 * BitAnd(a \div 2, b \div 2)

RECURSIVE BitOr(_, _)
BitOr(a, b) ==
    IF a = 0 THEN b
    ELSE IF b = 0 THEN a
    ELSE IF a = -1 \/ b = -1 THEN -1
    ELSE (IF a % 2 = 1 \/ b % 2 = 1 THEN 1 ELSE 0) + 2 * BitOr(a \div 2, b \div 2)

\* the mistaken reading of usages[-1]: the head of the list
FirstOf(s) == s[1]

Last(s) == s[Len(s)]

\* hidtools.util.twos_comp: reinterpret the low `bits` bits of val as signed
twos_comp(val, bits) ==
    IF bits > 0 /\ (val \div Pow2(bits - 1)) % 2 = 1 THEN val - Pow2(bits) ELSE val

\* hidtools.util.to_twos_comp: the unsigned encoding of val on `bits` bits
to_twos_comp(val, bits) == val % Pow2(bits)

-----------------------------------------------------------------------------
(* Item codec: hid_items, inv_hid, HidRDescItem *)

hid_items ==
    [Main |-> [Input |-> 128, Output |-> 144, Feature |-> 176,
               Collection |-> 160, EndCollection |-> 192],
     Global |-> [UsagePage |-> 4, LogicalMinimum |-> 20, LogicalMaximum |-> 36,
                 PhysicalMinimum |-> 52, PhysicalMaximum |-> 68,
                 UnitExponent |-> 84, Unit |-> 100, ReportSize |-> 116,
                 ReportID |-> 132, ReportCount |-> 148, Push |-> 164, Pop |-> 180],
     Local |-> [Usage |-> 8, UsageMinimum |-> 24, UsageMaximum |-> 40,
                DesignatorIndex |-> 56, DesignatorMinimum |-> 72,
                DesignatorMaximum |-> 88, StringIndex |-> 120,
                StringMinimum |-> 136, StringMaximum |-> 152, Delimiter |-> 168]]

\* inv_hid: header tag -> item name
inv_hid ==
    (128 :> "Input" @@ 144 :> "Output" @@ 176 :> "Feature" @@ 160 :> "Collection"
     @@ 192 :> "End Collection"
     @@ 4 :> "Usage Page" @@ 20 :> "Logical Minimum" @@ 36 :> "Logical Maximum"
     @@ 52 :> "Physical Minimum" @@ 68 :> "Physical Maximum"
     @@ 84 :> "Unit Exponent" @@ 100 :> "Unit" @@ 116 :> "Report Size"
     @@ 132 :> "Report ID" @@ 148 :> "Report Count" @@ 164 :> "Push" @@ 180 :> "Pop"
     @@ 8 :> "Usage" @@ 24 :> "Usage Minimum" @@ 40 :> "Usage Maximum"
     @@ 56 :> "Designator Index" @@ 72 :> "Designator Minimum"
     @@ 88 :> "Designator Maximum" @@ 120 :> "String Index"
     @@ 136 :> "String Minimum" @@ 152 :> "String Maximum" @@ 168 :> "Delimiter")

\* the payload read little-endian, as _one_item_from_bytes accumulates it
RECURSIVE LEValue(_)
LEValue(raw) == IF raw = <<>> THEN 0 ELSE raw[1] + 256 * LEValue(Tail(raw))

NoItem == [hid |-> 0, item |-> "", value |-> 0, raw_value |-> <<>>]

\* HidRDescItem._twos_comp: twos_comp(value, (size - 1) * 8) of the payload.
\* For a payload whose top bit is set the result, value - 2^bits, is computed
\* by lowering the top byte by 256, which keeps a 4-byte payload below 2^31.
\* the mistaken _twos_comp that takes every payload for a negative number
item_twos_comp_always(raw_values) ==
    LEValue([i \in 1..Len(raw_values) |->
                IF i = Len(raw_values) THEN raw_values[i] - 256 ELSE raw_values[i]])

item_twos_comp(raw_values) ==
    IF raw_values # <<>> /\ Last(raw_values) >= 128
    THEN LEValue([i \in 1..Len(raw_values) |->
                     IF i = Len(raw_values) THEN raw_values[i] - 256 ELSE raw_values[i]])
    ELSE LEValue(raw_values)

\* HidRDescItem.__init__: the item, or the KeyError of an unknown tag.  The
\* value of a Logical/Physical Minimum is sign-extended at the payload width
\* and a Unit Exponent above 7 is lowered by 16.
HidRDescItem(hid, raw_values) ==
    IF hid \notin DOMAIN inv_hid THEN [kind |-> "KeyError", it |-> NoItem]
    ELSE LET name == inv_hid[hid]
             value ==
                 IF name \in {"Logical Minimum", "Physical Minimum"}
                 THEN item_twos_comp(raw_values)
                 ELSE IF name = "Unit Exponent" /\ LEValue(raw_values) > 7
                 THEN LEValue(raw_values) - 16
                 ELSE LEValue(raw_values)
         IN [kind |-> "item",
             it |-> [hid |-> hid, item |-> name, value |-> value,
                     raw_value |-> raw_values]]

\* HidRDescItem.size: header byte plus payload
ItemSize(it) == 1 + Len(it.raw_value)

\* an encoder without the special case of the 4-byte payload
ItemBytesNoSize4(it) == <<BitOr(it.hid, Len(it.raw_value))>> \o it.raw_value

\* HidRDescItem.bytes
ItemBytes(it) ==
    LET h == IF Len(it.raw_value) = 4 THEN BitOr(it.hid, 3)
             ELSE BitOr(it.hid, Len(it.raw_value))
    IN <<h>> \o it.raw_value

\* HidRDescItem._one_item_from_bytes on the slice rdesc[idx:]
one_item_from_bytes(slice) ==
    LET header == slice[1]
        size == IF header % 4 = 3 THEN 4 ELSE header % 4
        hid == header - (header % 4)
    IN IF header = 0 /\ Len(slice) = 1 THEN [kind |-> "None", it |-> NoItem]
       ELSE IF hid = 0 THEN [kind |-> "ParseError", it |-> NoItem]
       ELSE IF Len(slice) < 1 + size THEN [kind |-> "IndexError", it |-> NoItem]
       ELSE HidRDescItem(hid, SubSeq(slice, 2, 1 + size))

-----------------------------------------------------------------------------
(* 32-bit composite usages as pairs <<high half, low 16 bits>> *)

NoneVal == <<>>

\* an item value v (below 2^31) as a composite
ToU(v) == <<v \div 65536, v % 65536>>

UOr(a, b) == <<BitOr(a[1], b[1]), BitOr(a[2], b[2])>>

\* Python truth of a composite: nonzero
UTrue(a) == a # <<0, 0>>

ULt(a, b) == a[1] < b[1] \/ (a[1] = b[1] /\ a[2] < b[2])

UInc(a) == IF a[2] = 65535 THEN <<a[1] + 1, 0>> ELSE <<a[1], a[2] + 1>>

\* the mistaken reading list(range(a, b)), for usages of one page
URangeExclusive(a, b) == [k \in 1..(b[2] - a[2]) |-> <<a[1], a[2] + k - 1>>]

\* list(range(a, b + 1))
RECURSIVE URange(_, _)
URange(a, b) == IF ULt(b, a) THEN <<>> ELSE <<a>> \o URange(UInc(a), b)

-----------------------------------------------------------------------------
(* HidField *)

\* HidField.__init__; usages is None (NoneVal) and start is not yet set (-1)
HidField(report_ID, logical, physical, application, collection, value, usage_page, usage, logical_min, logical_max, item_size, count) ==
    [report_ID |-> report_ID, logical |-> logical, physical |-> physical,
     application |-> application, collection |-> collection, type |-> value,
     usage_page |-> usage_page, usage |-> usage, usages |-> NoneVal,
     logical_min |-> logical_min, logical_max |-> logical_max,
     size |-> item_size, count |-> count, start |-> -1]

\* the "no data" placeholder of _get_value
NoData == <<"<.>">>

\* report[lo:hi] of a Python list, 0-based, clamped to the list
PySlice(rep, lo, hi) ==
    SubSeq(rep, lo + 1, IF hi > Len(rep) THEN Len(rep) ELSE hi)

\* a reader that sign-extends whatever the bit size is
get_value_always_signed(f, rep, i) ==
    LET start_bit == f.start + f.size * i
        end_bit == start_bit + f.size * (i + 1)
        bytes == PySlice(rep, start_bit \div 8, end_bit \div 8 + 1)
        value == (LEValue(bytes) \div Pow2(start_bit % 8)) % Pow2(f.size)
    IN IF Len(bytes) = 0 THEN NoData
       ELSE IF f.logical_min < 0 THEN twos_comp(value, f.size)
       ELSE value

\* HidField._get_value
get_value(f, rep, i) ==
    LET start_bit == f.start + f.size * i
        end_bit == start_bit + f.size * (i + 1)
        bytes == PySlice(rep, start_bit \div 8, end_bit \div 8 + 1)
        shifted == LEValue(bytes) \div Pow2(start_bit % 8)
        garbage == (shifted \div Pow2(f.size)) * Pow2(f.size)
        value == shifted - garbage
    IN IF Len(bytes) = 0 THEN NoData
       ELSE IF f.logical_min < 0 /\ f.size > 1 THEN twos_comp(value, f.size)
       ELSE value

\* HidField.get_values
get_values(f, rep) == [i \in 1..f.count |-> get_value(f, rep, i - 1)]

\* the while loop and the "last nibble" of _set_value: [err, report]
RECURSIVE SetBits(_, _, _, _, _, _)
SetBits(rep, value, n, byte_idx, bit_shift, bits_to_set) ==
    IF n - bits_to_set >= 0
    THEN IF byte_idx >= Len(rep) THEN [err |-> "IndexError", report |-> rep]
         ELSE LET cleared == BitAnd(rep[byte_idx + 1], -(255 * Pow2(bit_shift)) - 1)
                  byte == BitOr(cleared, (value * Pow2(bit_shift)) % 256)
              IN SetBits([rep EXCEPT ![byte_idx + 1] = byte],
                         value \div Pow2(bits_to_set), n - bits_to_set,
                         byte_idx + 1, 0, 8)
    ELSE IF n # 0
    THEN IF byte_idx >= Len(rep) THEN [err |-> "IndexError", report |-> rep]
         ELSE LET bit_mask == Pow2(n) - 1
                  cleared == BitAnd(rep[byte_idx + 1],
                                    -(bit_mask * Pow2(bit_shift)) - 1)
                  byte == BitOr(cleared, value * Pow2(bit_shift))
              IN [err |-> "ok", report |-> [rep EXCEPT ![byte_idx + 1] = byte]]
    ELSE [err |-> "ok", report |-> rep]

\* the mistaken _set_value that takes a whole byte in the first round
set_value_whole_bytes(f, rep, value, i) ==
    SetBits(rep, value, f.size, (f.start + f.size * i) \div 8,
            (f.start + f.size * i) % 8, 8)

\* the mistaken _set_value that writes without looking at the value
set_value_unchecked(f, rep, value, i) ==
    SetBits(rep, value, f.size, (f.start + f.size * i) \div 8,
            (f.start + f.size * i) % 8, 8 - ((f.start + f.size * i) % 8))

\* HidField._set_value: [err, report]
set_value(f, rep, value, i) ==
    LET start_bit == f.start + f.size * i
        max == Pow2(f.size) - 1
    IN IF value > max THEN [err |-> "Exception", report |-> rep]
       ELSE SetBits(rep, value, f.size, start_bit \div 8, start_bit % 8,
                    8 - (start_bit % 8))

\* the loop of set_values from index i on
RECURSIVE SetFrom(_, _, _, _)
SetFrom(f, rep, values, i) ==
    IF i >= f.count THEN [err |-> "ok", report |-> rep]
    ELSE LET v == IF f.logical_min < 0 THEN to_twos_comp(values[i + 1], f.size)
                  ELSE values[i + 1]
             res == set_value(f, rep, v, i)
         IN IF res.err # "ok" THEN res ELSE SetFrom(f, res.report, values, i + 1)

\* HidField.set_values: [err, report]
set_values(f, rep, values) ==
    IF Len(values) # f.count THEN [err |-> "Exception", report |-> rep]
    ELSE SetFrom(f, rep, values, 0)

\* HidField.const
FieldConst(f) == f.type % 2 = 1

\* HidField.array
FieldArray(f) == (f.type \div 2) % 2 = 0

\* the Variable branch with a usage range: one copy per count, the usage
\* stepping up while it is below usage_max
RECURSIVE VarRangeFields(_, _, _, _)
VarRangeFields(item, usage, usage_max, n) ==
    IF n = 0 THEN <<>>
    ELSE <<[item EXCEPT !.usage = usage]>>
         \o VarRangeFields(item, IF ULt(usage, usage_max) THEN UInc(usage) ELSE usage,
                           usage_max, n - 1)

\* HidField.getHidFields: [err, fields]
getHidFields(report_ID, logical, physical, application, collection, value, usage_page, usages, usage_min, usage_max, logical_min, logical_max, item_size, count) ==
    LET usage == IF Len(usages) > 0 THEN usages[1] ELSE usage_min
        item == HidField(report_ID, logical, physical, application, collection,
                         value, usage_page, usage, logical_min, logical_max,
                         item_size, 1)
    IN IF value % 2 = 1
       THEN [err |-> "ok", fields |-> <<[item EXCEPT !.size = item_size * count]>>]
       ELSE IF (value \div 2) % 2 = 1
       THEN IF UTrue(usage_min) /\ UTrue(usage_max)
            THEN [err |-> "ok",
                  fields |-> VarRangeFields(item, usage_min, usage_max, count)]
            ELSE IF count > 0 /\ Len(usages) = 0
            THEN [err |-> "IndexError", fields |-> <<>>]
            ELSE [err |-> "ok",
                  fields |-> [i \in 1..count |->
                                 [item EXCEPT !.usage = IF i <= Len(usages)
                                                        THEN usages[i]
                                                        ELSE Last(usages)]]]
       ELSE [err |-> "ok",
             fields |-> <<[item EXCEPT
                              !.usages = IF UTrue(usage_min) /\ UTrue(usage_max)
                                         THEN URange(usage_min, usage_max)
                                         ELSE usages,
                              !.count = count]>>]

-----------------------------------------------------------------------------
(* HidReport *)

\* HidReport.numbered
Numbered(report_ID) == report_ID >= 0

\* HidReport.__init__
HidReport(report_ID, application) ==
    [fields |-> <<>>, report_ID |-> report_ID, application |-> application,
     bitsize |-> IF Numbered(report_ID) THEN 8 ELSE 0]

\* HidReport.append
\* the mistaken append that leaves the bit cursor where it was
ReportAppendInPlace(rep, field) ==
    [rep EXCEPT !.fields = Append(@, [field EXCEPT !.start = rep.bitsize])]

ReportAppend(rep, field) ==
    [rep EXCEPT !.fields = Append(@, [field EXCEPT !.start = rep.bitsize]),
                !.bitsize = @ + field.size]

\* HidReport.extend
RECURSIVE ReportExtend(_, _)
ReportExtend(rep, fields) ==
    IF fields = <<>> THEN rep
    ELSE ReportExtend(ReportAppend(rep, Head(fields)), Tail(fields))

\* HidReport.size: the payload length in bytes
ReportSize(rep) == rep.bitsize \div 8

\* HidReport.has_been_populated
has_been_populated(rep) ==
    IF rep.report_ID >= 0 THEN rep.bitsize > 8 ELSE ReportSize(rep) > 0

\* USAGES, the HID usage table of hidtools.parse_hut: the pages and usages
\* the reports of this model name
USAGES ==
    (1 :> [page_name |-> "Generic Desktop",
           names |-> (1 :> "Pointer" @@ 2 :> "Mouse" @@ 48 :> "X" @@ 49 :> "Y")]
     @@ 9 :> [page_name |-> "Button", names |-> <<>>]
     @@ 13 :> [page_name |-> "Digitizers",
               names |-> (4 :> "Touch Screen" @@ 34 :> "Finger"
                          @@ 66 :> "Tip Switch")]
     @@ 65280 :> [page_name |-> "Vendor Defined Page 1", names |-> <<>>])

\* f'B{str(value)}' for the buttons of the model
ButtonName(value) ==
    CASE value = 1 -> "B1" [] value = 2 -> "B2" [] value = 3 -> "B3"
      [] OTHER -> "B"

\* HidField._usage_name; a usage the table does not name is rendered in hex,
\* which the model abbreviates to "0x"
usage_name_of(usage) ==
    LET usage_page == usage[1]
        value == usage[2] % 256
    IN IF usage_page \in DOMAIN USAGES
       THEN IF USAGES[usage_page].page_name = "Button" THEN ButtonName(value)
            ELSE IF value \in DOMAIN USAGES[usage_page].names
            THEN USAGES[usage_page].names[value]
            ELSE "0x"
       ELSE "0x"

\* usage.replace(' ', '').lower() on the names of the model
AttrName(usage) ==
    CASE usage = "X" -> "x" [] usage = "Y" -> "y"
      [] usage = "CX" -> "cx" [] usage = "CY" -> "cy"
      [] usage = "B1" -> "b1" [] usage = "B2" -> "b2" [] usage = "B3" -> "b3"
      [] usage = "Tip Switch" -> "tipswitch"
      [] usage = "Pointer" -> "pointer" [] usage = "Mouse" -> "mouse"
      [] usage = "Finger" -> "finger" [] usage = "Touch Screen" -> "touchscreen"
      [] OTHER -> usage

\* x in s, for a Python list s
InList(x, s) == \E i \in 1..Len(s) : s[i] = x

\* HidReport._fix_xy_usage_for_mt_devices
fix_xy_usage_for_mt_devices(prev_seen_usages, usage) ==
    IF ~InList(usage, prev_seen_usages) THEN usage
    ELSE LET u1 == IF usage = "X" /\ (~InList("Y", prev_seen_usages)
                                      \/ InList("CY", prev_seen_usages))
                   THEN "CX" ELSE usage
         IN IF u1 = "Y" /\ (~InList("X", prev_seen_usages)
                            \/ InList("CX", prev_seen_usages))
            THEN "CY" ELSE u1

\* lines 894-899 of _format_one_event, consulting the global frame first
select_value_global_first(frames, glob, field) ==
    IF field \in DOMAIN glob THEN glob[field]
    ELSE IF Len(frames) > 0 /\ field \in DOMAIN frames[1] THEN frames[1][field]
    ELSE 0

\* lines 894-899 of _format_one_event: the value to write for attribute
\* `field`; a frame is a function from attribute names to values, and None
\* is the function with no attribute
select_value(frames, glob, field) ==
    IF Len(frames) > 0 /\ field \in DOMAIN frames[1] THEN frames[1][field]
    ELSE IF field \in DOMAIN glob THEN glob[field]
    ELSE 0

\* HidReport._format_one_event on the state st of one format_report call:
\* st.seen / st.coll are self.prev_seen_usages / self.prev_collection,
\* st.data the caller's list, st.r the payload, st.head the head frame at
\* the lookup (<<>> if there is none or the field is constant), st.label
\* the usage label the lookup used
format_one_event(st, glob, item) ==
    IF FieldConst(item) THEN [st EXCEPT !.head = <<>>, !.label = ""]
    ELSE LET usage == fix_xy_usage_for_mt_devices(st.seen, usage_name_of(item.usage))
             next == st.coll # NoneVal /\ st.coll # item.collection
                     /\ InList(usage, st.seen)
             frames == IF next /\ Len(st.data) > 0 THEN Tail(st.data) ELSE st.data
             seen == IF next THEN <<>> ELSE st.seen
             value == select_value(frames, glob, AttrName(usage))
             res == set_values(item, st.r, <<value>>)
         IN IF res.err # "ok"
            THEN [st EXCEPT !.data = frames, !.seen = seen, !.r = res.report,
                            !.err = res.err,
                            !.label = usage,
                            !.head = IF frames = <<>> THEN <<>> ELSE frames[1]]
            ELSE [st EXCEPT !.data = frames, !.r = res.report,
                            !.coll = item.collection,
                            !.seen = Append(seen, usage),
                            !.label = usage,
                            !.head = IF frames = <<>> THEN <<>> ELSE frames[1]]

\* the first lines of HidReport.format_report
format_start(rep, frames) ==
    [seen |-> <<>>, coll |-> NoneVal, data |-> frames,
     r |-> [i \in 1..ReportSize(rep) |->
               IF i = 1 /\ Numbered(rep.report_ID) THEN rep.report_ID ELSE 0],
     err |-> "ok", head |-> <<>>, label |-> ""]

\* the last lines of HidReport.format_report
format_end(st) ==
    IF Len(st.data) > 0 THEN [st EXCEPT !.data = Tail(st.data)] ELSE st

\* the for loop of format_report from field i on
RECURSIVE FormatLoop(_, _, _, _)
FormatLoop(st, glob, fields, i) ==
    IF i > Len(fields) \/ st.err # "ok" THEN st
    ELSE FormatLoop(format_one_event(st, glob, fields[i]), glob, fields, i + 1)

\* HidReport.format_report run from start to end by one caller alone
format_report(rep, frames, glob) ==
    LET st == FormatLoop(format_start(rep, frames), glob, rep.fields, 1)
    IN IF st.err # "ok" THEN st ELSE format_end(st)

\* HidField.usage_page_name
usage_page_name_of(f) ==
    IF f.usage_page[1] \in DOMAIN USAGES THEN USAGES[f.usage_page[1]].page_name
    ELSE ""

\* len(str(n)) for n >= 0
RECURSIVE Digits(_)
Digits(n) == IF n < 10 THEN 1 ELSE 1 + Digits(n \div 10)

\* _get_value returns the "no data" placeholder for element i of field f
NoDataAt(f, rep, i) == (f.start + f.size * i) \div 8 >= Len(rep)

\* what _get_value returns for element i of field f, with its Python type:
\* an int, or the list ["<.>"]
typed_value(f, rep, i) ==
    IF NoDataAt(f, rep, i) THEN [t |-> "list", v |-> NoData]
    ELSE [t |-> "int", v |-> get_value(f, rep, i)]

\* one piece of the text get_str builds: kind is "ReportID", "#", "newline",
\* "var" or "array"; i is the index of the field rendered; value is the
\* value shown with its type, width the width of its format (0: none)
Piece(kind, i, s, label, name, value, width, names) ==
    [kind |-> kind, i |-> i, sep |-> s, label |-> label, name |-> name,
     value |-> value, width |-> width, names |-> names]

\* the first lines of HidReport.get_str; gs.seen / gs.coll are
\* self.prev_seen_usages / self.prev_collection, gs.prev is <<>> for None
\* and <<field>> otherwise
get_str_start(rep, bytes) ==
    LET gs == [seen |-> <<>>, coll |-> NoneVal, output |-> <<>>, sep |-> "",
               prev |-> <<>>, err |-> "ok"]
    IN IF ~Numbered(rep.report_ID) THEN gs
       ELSE IF bytes = <<>> THEN [gs EXCEPT !.err = "IndexError"]
       ELSE IF rep.report_ID # bytes[1] THEN [gs EXCEPT !.err = "AssertionError"]
       ELSE [gs EXCEPT !.sep = "/",
                       !.output = <<Piece("ReportID", 0, "", "", "",
                                          [t |-> "int", v |-> rep.report_ID],
                                          0, <<>>)>>]

\* 'vendor' in usage_page_name.lower(), on the page names of the model
HasVendor(page_name) == page_name = "Vendor Defined Page 1"

\* the text of one element v of an array field: '' out of the logical
\* range, the usage name if v indexes the usages, else v in hex
array_usage(f, v) ==
    IF v < f.logical_min \/ v > f.logical_max THEN [name |-> "", hex |-> -1]
    ELSE IF ~HasVendor(usage_page_name_of(f)) /\ v > 0 /\ v < Len(f.usages)
    THEN [name |-> usage_name_of(f.usages[v + 1]), hex |-> -1]
    ELSE [name |-> "", hex |-> v]

\* the Variable branch of the loop of get_str
get_str_variable(gs, f, i, bytes, split) ==
    LET usage_name == fix_xy_usage_for_mt_devices(gs.seen, usage_name_of(f.usage))
        brk == split /\ gs.coll # NoneVal /\ gs.coll # f.collection
        seen == Append(IF brk THEN <<>> ELSE gs.seen, usage_name)
        out == IF brk
               THEN Append(gs.output, Piece("newline", i, "", "", "", <<>>, 0, <<>>))
               ELSE gs.output
        same == gs.prev # <<>> /\ gs.prev[1].type = f.type
                /\ gs.prev[1].usage = f.usage
        width == IF f.size > 1 THEN Digits(Pow2(f.size)) + 1 ELSE 0
        value == typed_value(f, bytes, 0)
    IN IF value.t = "list"
       THEN [gs EXCEPT !.seen = seen, !.coll = f.collection, !.output = out,
                       !.err = "TypeError"]
       ELSE [gs EXCEPT !.seen = seen, !.coll = f.collection, !.sep = "|",
                       !.prev = <<f>>,
                       !.output = Append(out,
                           Piece("var", i, IF same THEN "," ELSE gs.sep,
                                 IF same THEN "" ELSE usage_name, usage_name,
                                 value, IF value.t = "str" THEN 0 ELSE width,
                                 <<>>))]

\* the Array branch of the loop of get_str
get_str_array(gs, f, i, bytes) ==
    LET page == usage_page_name_of(f)
    IN IF \E k \in 0..f.count - 1 : typed_value(f, bytes, k).t = "list"
       THEN [gs EXCEPT !.err = "TypeError"]
       ELSE [gs EXCEPT !.sep = "|", !.prev = <<f>>,
                       !.output = Append(gs.output,
                           Piece("array", i, gs.sep, "",
                                 IF page = "" THEN "Array" ELSE page, <<>>, 0,
                                 [k \in 1..f.count |->
                                     array_usage(f, get_value(f, bytes, k - 1))]))]

\* one turn of the loop of HidReport.get_str, for field i
get_str_field(gs, f, i, bytes, split) ==
    IF FieldConst(f)
    THEN [gs EXCEPT !.output = Append(gs.output,
                                      Piece("#", i, gs.sep, "", "", <<>>, 0, <<>>))]
    ELSE IF ~FieldArray(f) THEN get_str_variable(gs, f, i, bytes, split)
    ELSE get_str_array(gs, f, i, bytes)

-----------------------------------------------------------------------------
(* ReportDescriptor: the evaluator *)

\* INV_COLLECTIONS
INV_COLLECTIONS == (0 :> "PHYSICAL" @@ 1 :> "APPLICATION" @@ 2 :> "LOGICAL")

\* ReportDescriptor._Globals.__init__(None)
Globals0 ==
    [usage_page |-> <<0, 0>>, logical |-> NoneVal, physical |-> NoneVal,
     application |-> NoneVal, logical_min |-> 0, logical_max |-> 0,
     count |-> 0, item_size |-> 0]

\* ReportDescriptor._Globals.__init__(other): a new object with other's values
GlobalsCopy(other) ==
    [usage_page |-> other.usage_page, logical |-> other.logical,
     physical |-> other.physical, application |-> other.application,
     logical_min |-> other.logical_min, logical_max |-> other.logical_max,
     count |-> other.count, item_size |-> other.item_size]

\* ReportDescriptor._Locals.__init__
Locals0 == [usages |-> <<>>, usage_min |-> <<0, 0>>, usage_max |-> <<0, 0>>,
            report_ID |-> -1]

\* ReportDescriptor.__init__ before the loop over the items.  The _Globals
\* objects live in heap; glob and the entries of global_stack refer to them
\* by index, as the Python names refer to objects.
ReportDescriptor0(its) ==
    [input_reports |-> <<>>, feature_reports |-> <<>>, output_reports |-> <<>>,
     win8 |-> FALSE, rdesc_items |-> its,
     global_stack |-> <<>>, collection |-> <<0, 0, 0>>, local |-> Locals0,
     glob |-> 1, heap |-> <<Globals0>>, current_report |-> <<>>,
     current_input_report |-> NoneVal,
     attrs |-> {"input_reports", "feature_reports", "output_reports", "win8",
                "rdesc_items", "global_stack", "collection", "local", "glob",
                "current_report", "current_item"},
     status |-> "ok"]

\* self.glob, dereferenced
Glob(d) == d.heap[d.glob]

\* a Push that keeps using the pushed object instead of a copy of it
DoPushNoCopy(d) == [d EXCEPT !.global_stack = Append(@, d.glob)]

\* "Push": the current object goes on the stack, self.glob becomes a copy
DoPush(d) ==
    [d EXCEPT !.global_stack = Append(@, d.glob),
              !.heap = Append(@, GlobalsCopy(Glob(d))),
              !.glob = Len(d.heap) + 1]

\* "Pop": self.glob = self.global_stack.pop()
DoPop(d) ==
    IF d.global_stack = <<>> THEN [d EXCEPT !.status = "IndexError"]
    ELSE [d EXCEPT !.glob = Last(d.global_stack),
                   !.global_stack = SubSeq(@, 1, Len(@) - 1)]

\* the reset of the usage list that follows Usage Page, Collection and Main
\* the mistaken reset that empties the usage list and keeps the usage range
ResetUsageList(d) == [d EXCEPT !.local.usages = <<>>]

ResetUsages(d) ==
    [d EXCEPT !.local.usages = <<>>, !.local.usage_min = <<0, 0>>,
              !.local.usage_max = <<0, 0>>]

\* "Collection"
DoCollection(d, value) ==
    IF value \notin DOMAIN INV_COLLECTIONS THEN [d EXCEPT !.status = "KeyError"]
    ELSE LET c == INV_COLLECTIONS[value]
             k == IF c = "PHYSICAL" THEN 2 ELSE IF c = "APPLICATION" THEN 1 ELSE 3
             counted == [d EXCEPT !.collection[k] = @ + 1]
             us == d.local.usages
             bound ==
                 IF us = <<>> THEN counted   \* IndexError, caught
                 ELSE IF c = "PHYSICAL"
                 THEN [counted EXCEPT !.heap[d.glob].physical = Last(us)]
                 ELSE IF c = "APPLICATION"
                 THEN [counted EXCEPT !.heap[d.glob].application = Last(us)]
                 ELSE [counted EXCEPT !.heap[d.glob].logical = Last(us)]
         IN ResetUsages(bound)

\* report_lists[type] of _get_current_report
report_lists(d, type) ==
    IF type = "Input" THEN d.input_reports
    ELSE IF type = "Output" THEN d.output_reports
    ELSE d.feature_reports

\* report_lists[type][report_ID] = rep
\* the mistaken store that files every report as the unnumbered one
SetReportUnnumbered(d, type, report_ID, rep) ==
    IF type = "Input" THEN [d EXCEPT !.input_reports = (-1 :> rep) @@ @]
    ELSE IF type = "Output" THEN [d EXCEPT !.output_reports = (-1 :> rep) @@ @]
    ELSE [d EXCEPT !.feature_reports = (-1 :> rep) @@ @]

SetReport(d, type, report_ID, rep) ==
    IF type = "Input" THEN [d EXCEPT !.input_reports = (report_ID :> rep) @@ @]
    ELSE IF type = "Output" THEN [d EXCEPT !.output_reports = (report_ID :> rep) @@ @]
    ELSE [d EXCEPT !.feature_reports = (report_ID :> rep) @@ @]

\* ReportDescriptor._get_current_report: self.current_report is never
\* written, so the report is looked up by the local report ID, or created
\* the mistaken lookup that starts a new report for every Main item
get_current_report_fresh(d, type) == HidReport(d.local.report_ID, Glob(d).application)

get_current_report(d, type) ==
    IF d.local.report_ID \in DOMAIN report_lists(d, type)
    THEN report_lists(d, type)[d.local.report_ID]
    ELSE HidReport(d.local.report_ID, Glob(d).application)

\* a win8 test that forgets the direction of the Main item
Win8TestAnyMain(item, usages) ==
    Len(usages) > 0 /\ Last(usages) = <<65280, 197>>

\* the test that sets win8 on a Main item
Win8Test(item, usages) ==
    item = "Feature" /\ Len(usages) > 0 /\ Last(usages) = <<65280, 197>>

\* "Input", "Feature", "Output"
DoMain(d, item, value) ==
    LET rep == get_current_report(d, item)
        g == Glob(d)
        res == getHidFields(d.local.report_ID, g.logical, g.physical,
                            g.application, d.collection, value, g.usage_page,
                            d.local.usages, d.local.usage_min, d.local.usage_max,
                            g.logical_min, g.logical_max, g.item_size, g.count)
    IN IF res.err # "ok"
       THEN [SetReport(d, item, d.local.report_ID, rep) EXCEPT !.status = res.err]
       ELSE LET ext == [SetReport(d, item, d.local.report_ID,
                                  ReportExtend(rep, res.fields))
                           EXCEPT !.current_input_report =
                                      <<item, d.local.report_ID>>,
                                  !.attrs = @ \cup {"current_input_report"}]
                w == [ext EXCEPT !.win8 = @ \/ Win8Test(item, d.local.usages)]
            IN ResetUsages(w)

\* ReportDescriptor._parse_item
parse_item(d, it) ==
    LET item == it.item
        value == it.value
    IN CASE item = "Report ID" -> [d EXCEPT !.local.report_ID = value]
         [] item = "Push" -> DoPush(d)
         [] item = "Pop" -> DoPop(d)
         [] item = "Usage Page" ->
                ResetUsages([d EXCEPT !.heap[d.glob].usage_page = <<value, 0>>])
         [] item = "Collection" -> DoCollection(d, value)
         [] item = "Usage Minimum" ->
                [d EXCEPT !.local.usage_min = UOr(ToU(value), Glob(d).usage_page)]
         [] item = "Usage Maximum" ->
                [d EXCEPT !.local.usage_max = UOr(ToU(value), Glob(d).usage_page)]
         [] item = "Logical Minimum" -> [d EXCEPT !.heap[d.glob].logical_min = value]
         [] item = "Logical Maximum" -> [d EXCEPT !.heap[d.glob].logical_max = value]
         [] item = "Usage" ->
                [d EXCEPT !.local.usages =
                              Append(@, UOr(ToU(value), Glob(d).usage_page))]
         [] item = "Report Count" -> [d EXCEPT !.heap[d.glob].count = value]
         [] item = "Report Size" -> [d EXCEPT !.heap[d.glob].item_size = value]
         [] item \in {"Input", "Feature", "Output"} -> DoMain(d, item, value)
         [] OTHER -> d

\* the loop of ReportDescriptor.__init__ over the items, stopping at the
\* first exception
RECURSIVE ParseItems(_, _)
ParseItems(d, its) ==
    IF its = <<>> \/ d.status # "ok" THEN d
    ELSE ParseItems(parse_item(d, Head(its)), Tail(its))

\* the del statements that end ReportDescriptor.__init__: the attributes of
\* the object are those named in attrs
DropParsingState(d) ==
    [d EXCEPT !.attrs = @ \ {"current_item", "glob", "global_stack", "local",
                              "current_report", "collection"},
              !.status = "done"]

\* ReportDescriptor.__init__
ReportDescriptor(its) ==
    LET d == ParseItems(ReportDescriptor0(its), its)
    IN IF d.status = "ok" THEN DropParsingState(d) ELSE d

\* ReportDescriptor.bytes
RECURSIVE DescriptorBytes(_)
DescriptorBytes(its) ==
    IF its = <<>> THEN <<>> ELSE ItemBytes(Head(its)) \o DescriptorBytes(Tail(its))

-----------------------------------------------------------------------------
(* Values the variables of an operation hold while another one is modelled *)

IdleParse == rdesc = <<>> /\ idx = 0 /\ items = <<>> /\ pstatus = "idle"

IdleEval ==
    /\ rd = ReportDescriptor0(<<>>)
    /\ nitems = 0 /\ npush = 0 /\ npop = 0
    /\ snaps = <<>> /\ popped = Globals0 /\ sawC5 = FALSE /\ lastItem = ""

IdlePack ==
    /\ fld = <<>> /\ report = <<>> /\ written = 0 /\ readback = <<>>
    /\ fstatus = "idle"

IdleFmt ==
    /\ hidReport = <<>> /\ pc = <<>> /\ cur = <<>> /\ data = <<>>
    /\ global_data = <<>> /\ r = <<>> /\ data0 = <<>> /\ picked = <<>>

IdleDec ==
    /\ payload = <<>> /\ split_lines = FALSE /\ got = <<>> /\ output = <<>>
    /\ sep = "" /\ prev = <<>> /\ di = 0 /\ dstatus = "idle"

IdleText == text = <<>> /\ titems = <<>> /\ text2 = <<>> /\ tstatus = "idle"

IdleUhid ==
    /\ uhid = <<>> /\ fd_written = <<>> /\ fd_events = <<>> /\ fd_cond = {}
    /\ cls_devices = <<>> /\ cls_poll = {}
    /\ dpc = "idle" /\ timeout = 0 /\ polled = <<>> /\ had_data = FALSE
    /\ handled = 0 /\ returned = "none" /\ raised = "none" /\ arrived = 0

-----------------------------------------------------------------------------
(* ReportDescriptor.from_bytes on a list of bytes *)

\* the bytes descriptors are drawn from: 0x00, 0x02 (tag 0), 0x0c (no such
\* tag), 0x15 / 0x17 (Logical Minimum, 1 and 4 bytes), 0x26 (Logical Maximum,
\* 2 bytes), 0x55 (Unit Exponent, 1 byte), 0x81 (Input, 1 byte), 0xc0 (End
\* Collection)
ByteVals == {0, 2, 12, 21, 23, 38, 85, 129, 192}

InitBytes ==
    /\ rdesc \in UNION {[1..n -> ByteVals] : n \in 0..MaxBytes}
    /\ idx = 0 /\ items = <<>> /\ pstatus = "parsing"
    /\ IdleEval /\ IdlePack /\ IdleFmt /\ IdleDec /\ IdleText /\ IdleUhid

\* rdesc[idx:]
Slice == SubSeq(rdesc, idx + 1, Len(rdesc))

\* one turn of the loop of HidRDescItem.from_bytes that yields an item
FromBytesItem ==
    /\ pstatus = "parsing" /\ idx < Len(rdesc)
    /\ one_item_from_bytes(Slice).kind = "item"
    /\ items' = Append(items, one_item_from_bytes(Slice).it)
    /\ idx' = idx + ItemSize(one_item_from_bytes(Slice).it)
    /\ UNCHANGED <<rdesc, pstatus>>
    /\ UNCHANGED <<evalVars, packVars, fmtVars, decVars, textVars, uhidVars>>

\* the loop ends: the bytes are used up, or the item is None (trailing 0)
FromBytesEnd ==
    /\ pstatus = "parsing"
    /\ \/ idx >= Len(rdesc)
       \/ idx < Len(rdesc) /\ one_item_from_bytes(Slice).kind = "None"
    /\ pstatus' = "parsed"
    /\ UNCHANGED <<rdesc, idx, items>>
    /\ UNCHANGED <<evalVars, packVars, fmtVars, decVars, textVars, uhidVars>>

\* _one_item_from_bytes raises
FromBytesRaise ==
    /\ pstatus = "parsing" /\ idx < Len(rdesc)
    /\ one_item_from_bytes(Slice).kind \in {"ParseError", "IndexError", "KeyError"}
    /\ pstatus' = one_item_from_bytes(Slice).kind
    /\ UNCHANGED <<rdesc, idx, items>>
    /\ UNCHANGED <<evalVars, packVars, fmtVars, decVars, textVars, uhidVars>>

\* return ReportDescriptor(items)
Construct ==
    /\ pstatus = "parsed"
    /\ rd' = ReportDescriptor(items)
    /\ pstatus' = IF rd'.status = "done" THEN "built" ELSE rd'.status
    /\ UNCHANGED <<rdesc, idx, items>>
    /\ UNCHANGED <<nitems, npush, npop, snaps, popped, sawC5, lastItem>>
    /\ UNCHANGED <<packVars, fmtVars, decVars, textVars, uhidVars>>

NextBytes == FromBytesItem \/ FromBytesEnd \/ FromBytesRaise \/ Construct

SpecBytes == InitBytes /\ [][NextBytes]_vars

\* C1 as stated: whenever from_bytes returns a descriptor, its bytes
\* property equals the input, byte for byte and in length.
C1_ByteRoundTrip ==
    pstatus = "built" => DescriptorBytes(rd.rdesc_items) = rdesc

\* C1 amended: whenever from_bytes returns a descriptor, its bytes property
\* equals the input, except that a 0x00 in header position at the final byte
\* (the tolerated trailing zero) is dropped: then bytes equals the input
\* without its last byte.
C1_ByteRoundTripButTrailingZero ==
    pstatus = "built" =>
        /\ DescriptorBytes(rd.rdesc_items) = SubSeq(rdesc, 1, idx)
        /\ \/ idx = Len(rdesc)
           \/ idx = Len(rdesc) - 1 /\ Last(rdesc) = 0

\* a descriptor of two or more items, one with a payload, was built from
\* bytes that end in the tolerated trailing zero
C1_Witness ==
    /\ pstatus = "built" /\ Len(rd.rdesc_items) >= 2
    /\ idx = Len(rdesc) - 1
    /\ \E i \in 1..Len(rd.rdesc_items) : Len(rd.rdesc_items[i].raw_value) >= 1

\* C7 as stated: from_bytes fails with ParseError and with no other kind of
\* error (unknown tag, tag zero off the final position, truncated payload),
\* and a 0x00 header at the final byte position ends the stream without error.
C7_OnlyParseError ==
    /\ pstatus \notin {"parsing", "parsed", "built"} => pstatus = "ParseError"
    /\ (pstatus = "parsing" /\ idx = Len(rdesc) - 1 /\ Last(rdesc) = 0)
           => one_item_from_bytes(Slice).kind = "None"

-----------------------------------------------------------------------------
(* ReportDescriptor.__init__ on a stream of items, one _parse_item per step *)

\* the values the items of the stream carry
ReportIDs == {1}
UsagePages == {1, 65280}
UsageIDs == {48, 197}
UsageMins == {1}
UsageMaxs == {2}
LogicalMins == {-1}
LogicalMaxs == {1}
ReportCounts == {2}
ReportSizes == {8}
CollectionArgs == {0, 1, 2, 3}
MainFlags == {0, 1, 2}
MainItems == {"Input", "Output", "Feature"}

\* the tags that _parse_item has no branch for
OtherItems ==
    {"End Collection", "Physical Minimum", "Physical Maximum", "Unit Exponent",
     "Unit", "Designator Index", "Designator Minimum", "Designator Maximum",
     "String Index", "String Minimum", "String Maximum", "Delimiter"}

InitEval ==
    /\ rd = ReportDescriptor0(<<>>)
    /\ nitems = 0 /\ npush = 0 /\ npop = 0
    /\ snaps = <<>> /\ popped = Globals0 /\ sawC5 = FALSE /\ lastItem = ""
    /\ IdleParse /\ IdlePack /\ IdleFmt /\ IdleDec /\ IdleText /\ IdleUhid

\* self._parse_item(item) for the next item of the stream
Feed(name, value) ==
    /\ rd.status = "ok" /\ nitems < MaxItems
    /\ rd' = parse_item(rd, [item |-> name, value |-> value])
    /\ nitems' = nitems + 1
    /\ lastItem' = IF name \in OtherItems THEN "other" ELSE name
    /\ UNCHANGED <<parseVars, packVars, fmtVars, decVars, textVars, uhidVars>>

ItemReportID ==
    /\ \E v \in ReportIDs : Feed("Report ID", v)
    /\ UNCHANGED <<npush, npop, snaps, popped, sawC5>>

ItemPush ==
    /\ Feed("Push", 0)
    /\ npush' = npush + 1
    /\ snaps' = Append(snaps, Glob(rd))
    /\ UNCHANGED <<npop, popped, sawC5>>

ItemPop ==
    /\ Feed("Pop", 0)
    /\ npop' = npop + 1
    /\ IF snaps = <<>>
       THEN UNCHANGED <<snaps, popped>>
       ELSE snaps' = SubSeq(snaps, 1, Len(snaps) - 1) /\ popped' = Last(snaps)
    /\ UNCHANGED <<npush, sawC5>>

ItemUsagePage ==
    /\ \E v \in UsagePages : Feed("Usage Page", v)
    /\ UNCHANGED <<npush, npop, snaps, popped, sawC5>>

ItemCollection ==
    /\ \E v \in CollectionArgs : Feed("Collection", v)
    /\ UNCHANGED <<npush, npop, snaps, popped, sawC5>>

ItemUsageMinimum ==
    /\ \E v \in UsageMins : Feed("Usage Minimum", v)
    /\ UNCHANGED <<npush, npop, snaps, popped, sawC5>>

ItemUsageMaximum ==
    /\ \E v \in UsageMaxs : Feed("Usage Maximum", v)
    /\ UNCHANGED <<npush, npop, snaps, popped, sawC5>>

ItemLogicalMinimum ==
    /\ \E v \in LogicalMins : Feed("Logical Minimum", v)
    /\ UNCHANGED <<npush, npop, snaps, popped, sawC5>>

ItemLogicalMaximum ==
    /\ \E v \in LogicalMaxs : Feed("Logical Maximum", v)
    /\ UNCHANGED <<npush, npop, snaps, popped, sawC5>>

ItemUsage ==
    /\ \E v \in UsageIDs : Feed("Usage", v)
    /\ UNCHANGED <<npush, npop, snaps, popped, sawC5>>

ItemReportCount ==
    /\ \E v \in ReportCounts : Feed("Report Count", v)
    /\ UNCHANGED <<npush, npop, snaps, popped, sawC5>>

ItemReportSize ==
    /\ \E v \in ReportSizes : Feed("Report Size", v)
    /\ UNCHANGED <<npush, npop, snaps, popped, sawC5>>

ItemMain ==
    /\ \E name \in MainItems, v \in MainFlags :
           /\ Feed(name, v)
           /\ sawC5' = (sawC5 \/ (/\ name = "Feature"
                                  /\ rd.local.usages # <<>>
                                  /\ Last(rd.local.usages) = <<65280, 197>>
                                  /\ rd'.status = "ok"))
    /\ UNCHANGED <<npush, npop, snaps, popped>>

ItemOther ==
    /\ \E name \in OtherItems : Feed(name, 0)
    /\ UNCHANGED <<npush, npop, snaps, popped, sawC5>>

\* the items are used up: the constructor drops its parsing state and returns
Finish ==
    /\ rd.status = "ok"
    /\ rd' = DropParsingState(rd)
    /\ UNCHANGED <<nitems, npush, npop, snaps, popped, sawC5, lastItem>>
    /\ UNCHANGED <<parseVars, packVars, fmtVars, decVars, textVars, uhidVars>>

NextEval ==
    \/ ItemReportID \/ ItemPush \/ ItemPop \/ ItemUsagePage \/ ItemCollection
    \/ ItemUsageMinimum \/ ItemUsageMaximum \/ ItemLogicalMinimum
    \/ ItemLogicalMaximum \/ ItemUsage \/ ItemReportCount \/ ItemReportSize
    \/ ItemMain \/ ItemOther \/ Finish

SpecEval == InitEval /\ [][NextEval]_vars

\* the Reports of the three maps
AllReports(d) ==
    {d.input_reports[k] : k \in DOMAIN d.input_reports}
    \cup {d.output_reports[k] : k \in DOMAIN d.output_reports}
    \cup {d.feature_reports[k] : k \in DOMAIN d.feature_reports}

\* sum of bit_size * count over the first n fields
RECURSIVE SumSizeCount(_, _)
SumSizeCount(fields, n) ==
    IF n = 0 THEN 0
    ELSE fields[n].size * fields[n].count + SumSizeCount(fields, n - 1)

\* C2 as stated: every Report of the input, output and feature maps has
\* bitsize = (8 if numbered else 0) + the sum over its fields of
\* bit_size * count.
C2_BitBudget ==
    \A R \in AllReports(rd) :
        R.bitsize = (IF R.report_ID >= 0 THEN 8 ELSE 0)
                    + SumSizeCount(R.fields, Len(R.fields))

\* C3 as stated: the start bit of every field is the sum of bit_size * count
\* of the fields appended before it to the same report, plus 8 if the report
\* is numbered, and start bits do not decrease in field order.
C3_StartBitLayout ==
    \A R \in AllReports(rd) :
        /\ \A i \in 1..Len(R.fields) :
               R.fields[i].start = (IF R.report_ID >= 0 THEN 8 ELSE 0)
                                   + SumSizeCount(R.fields, i - 1)
        /\ \A i \in 1..Len(R.fields) - 1 : R.fields[i].start <= R.fields[i + 1].start

\* C5: while the evaluator runs without error, the stack depth is #Push - #Pop
\* (hence 0 when they are matched), every stacked record still holds the
\* eight global values of the moment of its Push, and right after a Pop the
\* global record holds the eight values of the moment of the matching Push.
C5_PushPopLIFO ==
    rd.status \in {"ok", "done"} =>
        /\ Len(rd.global_stack) = npush - npop
        /\ Len(snaps) = Len(rd.global_stack)
        /\ \A i \in 1..Len(snaps) : rd.heap[rd.global_stack[i]] = snaps[i]
        /\ lastItem = "Pop" => Glob(rd) = popped

\* a Pop under two Pushes restored a record that differs from the one that
\* was current just before it
C5_Witness ==
    /\ rd.status = "ok" /\ lastItem = "Pop" /\ npush = 2 /\ npop = 1
    /\ Glob(rd) = popped
    /\ rd.heap[Len(rd.heap)] # Glob(rd)

\* C6 as stated: the evaluator never raises, whatever the items are.
C6_EvaluatorNeverRaises == rd.status \in {"ok", "done"}

\* C8: win8 is true exactly when some Feature item was evaluated while the
\* last entry of the local usage list was 0xFF0000C5 (Input and Output items
\* never set it, and it is never reset).
C8_Win8Detection == rd.win8 = sawC5

\* a descriptor with such a Feature item was constructed
C8_Witness == rd.status = "done" /\ rd.win8 /\ sawC5

-----------------------------------------------------------------------------
(* HidField.set_values / get_values on a caller-owned buffer *)

\* the buffer: long enough for every field of the model, every byte 0x00
\* or every byte 0xff before the first write
BufLen == (MaxStart + MaxSize) \div 8 + 1

\* a field of one value: signed fields span the whole two's-complement
\* range of their size, unsigned ones 0 .. 2^size - 1
PackerField(start, size, signed) ==
    [HidField(-1, NoneVal, NoneVal, NoneVal, <<0, 0, 0>>, 2, <<0, 0>>, <<0, 0>>,
              IF signed THEN -Pow2(size - 1) ELSE 0,
              IF signed THEN Pow2(size - 1) - 1 ELSE Pow2(size) - 1,
              size, 1)
        EXCEPT !.start = start]

InitPacker ==
    /\ \E start \in 0..MaxStart, size \in 1..MaxSize, signed \in BOOLEAN :
           fld = PackerField(start, size, signed)
    /\ \E fill \in {0, 255} : report = [i \in 1..BufLen |-> fill]
    /\ written = 0 /\ readback = <<>> /\ fstatus = "fresh"
    /\ IdleParse /\ IdleEval /\ IdleFmt /\ IdleDec /\ IdleText /\ IdleUhid

\* field.set_values(report, [v]); v may lie outside the logical range
SetValues ==
    /\ fstatus = "fresh"
    /\ \E v \in (fld.logical_min - 1)..(fld.logical_max + 1) :
           /\ written' = v
           /\ report' = set_values(fld, report, <<v>>).report
           /\ fstatus' = IF set_values(fld, report, <<v>>).err = "ok"
                         THEN "set" ELSE set_values(fld, report, <<v>>).err
    /\ UNCHANGED <<fld, readback>>
    /\ UNCHANGED <<parseVars, evalVars, fmtVars, decVars, textVars, uhidVars>>

\* field.get_values(report)
GetValues ==
    /\ fstatus \in {"fresh", "set"}
    /\ readback' = get_values(fld, report)
    /\ fstatus' = IF fstatus = "fresh" THEN "peeked" ELSE "read"
    /\ UNCHANGED <<fld, report, written>>
    /\ UNCHANGED <<parseVars, evalVars, fmtVars, decVars, textVars, uhidVars>>

NextPacker == SetValues \/ GetValues

SpecPacker == InitPacker /\ [][NextPacker]_vars

\* v is representable as a signed number of the field's bit size
Representable(f, v) == -Pow2(f.size - 1) <= v /\ v <= Pow2(f.size - 1) - 1

\* C4 as stated: for a field with logical_min < 0 of any bit size from 1 up,
\* reading the buffer that set_values([v]) produced returns v, for every v
\* of the logical range that the bit size can represent.
C4_SignedRoundTrip ==
    (/\ fstatus = "read" /\ fld.logical_min < 0
     /\ fld.logical_min <= written /\ written <= fld.logical_max
     /\ Representable(fld, written))
        => readback = <<written>>

\* C4 amended: the same for bit sizes from 2 up; a field of bit size 1 reads
\* back the bit itself, so -1 reads back as 1.
C4_SignedRoundTripFrom2 ==
    (/\ fstatus = "read" /\ fld.logical_min < 0
     /\ fld.logical_min <= written /\ written <= fld.logical_max
     /\ Representable(fld, written))
        => readback = <<IF fld.size > 1 THEN written ELSE written % 2>>

\* a negative value was written to and read from a signed field that
\* straddles a byte boundary of a buffer that was not blank
C4_Witness ==
    /\ fstatus = "read" /\ fld.logical_min < 0 /\ written < -1
    /\ (fld.start % 8) + fld.size > 8
    /\ readback = <<written>>
    /\ \E i \in 1..Len(report) : report[i] = 255

-----------------------------------------------------------------------------
(* HidReport.format_report, called by one thread or by two *)

It(name, value) == [item |-> name, value |-> value]

\* the mouse of scenario S1: three buttons, 5 bits of padding, signed X and Y
MouseItems ==
    <<It("Usage Page", 1), It("Usage", 2), It("Collection", 1),
      It("Usage", 1), It("Collection", 0),
      It("Usage Page", 9), It("Usage Minimum", 1), It("Usage Maximum", 3),
      It("Logical Minimum", 0), It("Logical Maximum", 1),
      It("Report Count", 3), It("Report Size", 1), It("Input", 2),
      It("Report Count", 1), It("Report Size", 5), It("Input", 1),
      It("Usage Page", 1), It("Usage", 48), It("Usage", 49),
      It("Logical Minimum", -127), It("Logical Maximum", 127),
      It("Report Size", 8), It("Report Count", 2), It("Input", 6),
      It("End Collection", 0), It("End Collection", 0)>>

\* one Finger logical collection of a touch screen: Tip Switch, 7 bits of
\* padding, unsigned X and Y
FingerItems ==
    <<It("Usage Page", 13), It("Usage", 34), It("Collection", 2),
      It("Usage", 66), It("Logical Minimum", 0), It("Logical Maximum", 1),
      It("Report Size", 1), It("Report Count", 1), It("Input", 2),
      It("Report Size", 7), It("Input", 3),
      It("Usage Page", 1), It("Usage", 48), It("Usage", 49),
      It("Logical Maximum", 255), It("Report Size", 8), It("Report Count", 2),
      It("Input", 2), It("End Collection", 0)>>

\* a touch screen with report ID 1 and two Finger collections
TouchItems ==
    <<It("Usage Page", 13), It("Usage", 4), It("Collection", 1),
      It("Report ID", 1)>>
    \o FingerItems \o FingerItems \o <<It("End Collection", 0)>>

\* a touch screen without report ID whose two Finger collections hold one
\* X field each
XOnlyFinger ==
    <<It("Usage Page", 13), It("Usage", 34), It("Collection", 2),
      It("Usage Page", 1), It("Usage", 48),
      It("Logical Minimum", 0), It("Logical Maximum", 255),
      It("Report Size", 8), It("Report Count", 1), It("Input", 2),
      It("End Collection", 0)>>

XOnlyItems ==
    <<It("Usage Page", 13), It("Usage", 4), It("Collection", 1)>>
    \o XOnlyFinger \o XOnlyFinger \o <<It("End Collection", 0)>>

\* one X field: a single bit, an array of two bytes, an array of one byte
BitItems ==
    <<It("Usage Page", 1), It("Usage", 48), It("Report Size", 1),
      It("Report Count", 1), It("Input", 2)>>

ArrayOf(count) ==
    <<It("Usage Page", 1), It("Usage", 48), It("Report Size", 8),
      It("Report Count", count), It("Input", 0)>>

BitReport == ReportDescriptor(BitItems).input_reports[-1]
PairReport == ReportDescriptor(ArrayOf(2)).input_reports[-1]
SingleReport == ReportDescriptor(ArrayOf(1)).input_reports[-1]
MouseReport == ReportDescriptor(MouseItems).input_reports[-1]
XOnlyReport == ReportDescriptor(XOnlyItems).input_reports[-1]
TouchReport == ReportDescriptor(TouchItems).input_reports[1]

\* the data frames of the callers: the frame of scenario S5 (with a tip
\* switch for the touch screen), a frame without buttons whose x does not
\* fit a signed byte, a frame whose b1 does not fit one bit, and a frame
\* whose b1 is negative
Frames ==
    {[b1 |-> 1, b2 |-> 0, b3 |-> 0, x |-> 10, y |-> -5, tipswitch |-> 1],
     [x |-> 200, y |-> 3],
     [b1 |-> 2, x |-> 1, y |-> 1],
     [b1 |-> -1, x |-> 1, y |-> 1]}

FrameLists == UNION {[1..n -> Frames] : n \in 0..MaxFrames}

\* the global frames: None, or one with b2 and x
GlobalFrames == {<<>>, [b2 |-> 1, x |-> 7]}

\* the frame lists of two concurrent callers: no frame, one frame, or one
\* frame per finger
FrameLists2 ==
    {<<>>,
     <<[x |-> 10, y |-> 5, tipswitch |-> 1]>>,
     <<[x |-> 10, y |-> 5, tipswitch |-> 1], [x |-> 20, y |-> 3]>>}

InitFormatOf(T, reports, lists, globs) ==
    /\ \E rep \in reports :
           hidReport = [rep |-> rep, prev_seen_usages |-> <<>>,
                        prev_collection |-> NoneVal]
    /\ data \in [T -> lists]
    /\ global_data \in [T -> globs]
    /\ data0 = data
    /\ pc = [t \in T |-> "idle"]
    /\ cur = [t \in T |-> 0]
    /\ r = [t \in T |-> <<>>]
    /\ picked = [t \in T |-> <<>>]
    /\ IdleParse /\ IdleEval /\ IdlePack /\ IdleDec /\ IdleText /\ IdleUhid

\* format_report up to its for loop
FormatStart(t) ==
    /\ pc[t] = "idle"
    /\ hidReport' = [hidReport EXCEPT !.prev_seen_usages = <<>>,
                                      !.prev_collection = NoneVal]
    /\ r' = [r EXCEPT ![t] = format_start(hidReport.rep, data[t]).r]
    /\ cur' = [cur EXCEPT ![t] = 1]
    /\ pc' = [pc EXCEPT ![t] = "loop"]
    /\ UNCHANGED <<data, global_data, data0, picked>>
    /\ UNCHANGED <<parseVars, evalVars, packVars, decVars, textVars, uhidVars>>

\* the state _format_one_event of caller t works on
EventState(t) ==
    [seen |-> hidReport.prev_seen_usages, coll |-> hidReport.prev_collection,
     data |-> data[t], r |-> r[t], err |-> "ok", head |-> <<>>, label |-> ""]

\* one turn of the for loop: self._format_one_event(data, global_data, item, r)
FormatOneEvent(t) ==
    /\ pc[t] = "loop" /\ cur[t] <= Len(hidReport.rep.fields)
    /\ LET item == hidReport.rep.fields[cur[t]]
           st == format_one_event(EventState(t), global_data[t], item)
       IN /\ hidReport' = [hidReport EXCEPT !.prev_seen_usages = st.seen,
                                            !.prev_collection = st.coll]
          /\ data' = [data EXCEPT ![t] = st.data]
          /\ r' = [r EXCEPT ![t] = st.r]
          /\ pc' = [pc EXCEPT ![t] = IF st.err = "ok" THEN "loop" ELSE st.err]
          /\ picked' = [picked EXCEPT ![t] =
                            IF FieldConst(item) THEN @
                            ELSE Append(@, [i |-> cur[t], head |-> st.head,
                                            label |-> st.label])]
    /\ cur' = [cur EXCEPT ![t] = @ + 1]
    /\ UNCHANGED <<global_data, data0>>
    /\ UNCHANGED <<parseVars, evalVars, packVars, decVars, textVars, uhidVars>>

\* the loop is over: the last frame is popped and r is returned
FormatReturn(t) ==
    /\ pc[t] = "loop" /\ cur[t] > Len(hidReport.rep.fields)
    /\ data' = [data EXCEPT ![t] = IF Len(@) > 0 THEN Tail(@) ELSE @]
    /\ pc' = [pc EXCEPT ![t] = "done"]
    /\ UNCHANGED <<hidReport, cur, global_data, r, data0, picked>>
    /\ UNCHANGED <<parseVars, evalVars, packVars, decVars, textVars, uhidVars>>

\* one caller
InitFormat ==
    InitFormatOf({1}, {MouseReport, TouchReport, XOnlyReport, BitReport,
                       PairReport, SingleReport}, FrameLists, GlobalFrames)

NextFormat == FormatStart(1) \/ FormatOneEvent(1) \/ FormatReturn(1)

SpecFormat == InitFormat /\ [][NextFormat]_vars

\* two callers on the same HidReport, each with its own frames and payload
Threads == {1, 2}

InitFormat2 ==
    InitFormatOf(Threads, {MouseReport, TouchReport, XOnlyReport}, FrameLists2, {<<>>})

NextFormat2 ==
    \E t \in Threads : FormatStart(t) \/ FormatOneEvent(t) \/ FormatReturn(t)

SpecFormat2 == InitFormat2 /\ [][NextFormat2]_vars

\* the position, among the successive collections of the report, of the
\* collection field i lies in
RECURSIVE CollIndex(_, _)
CollIndex(fields, i) ==
    IF i <= 1 THEN 1
    ELSE CollIndex(fields, i - 1)
         + (IF fields[i].collection # fields[i - 1].collection THEN 1 ELSE 0)

-----------------------------------------------------------------------------
(* HidReport.append and extend on a fresh report *)

\* a variable field of the given bit size
SizedField(size) ==
    HidField(-1, NoneVal, NoneVal, NoneVal, <<0, 0, 0>>, 2, <<1, 0>>, <<1, 48>>,
             0, 1, size, 1)

InitAppend ==
    /\ \E report_ID \in {-1, 1} :
           hidReport = [rep |-> HidReport(report_ID, NoneVal),
                        prev_seen_usages |-> <<>>, prev_collection |-> NoneVal]
    /\ pc = <<>> /\ cur = <<>> /\ data = <<>> /\ global_data = <<>>
    /\ r = <<>> /\ data0 = <<>> /\ picked = <<>>
    /\ IdleParse /\ IdleEval /\ IdlePack /\ IdleDec /\ IdleText /\ IdleUhid

\* report.append(field)
Append1 ==
    /\ Len(hidReport.rep.fields) < MaxFields
    /\ \E size \in 1..MaxSize :
          hidReport' = [hidReport EXCEPT
                           !.rep = ReportAppend(@, SizedField(size))]
    /\ UNCHANGED <<pc, cur, data, global_data, r, data0, picked>>
    /\ UNCHANGED <<parseVars, evalVars, packVars, decVars, textVars, uhidVars>>

\* report.extend([field, field])
Extend2 ==
    /\ Len(hidReport.rep.fields) + 2 <= MaxFields
    /\ \E size1 \in 1..MaxSize, size2 \in 1..MaxSize :
          hidReport' = [hidReport EXCEPT
                           !.rep = ReportExtend(@, <<SizedField(size1),
                                                     SizedField(size2)>>)]
    /\ UNCHANGED <<pc, cur, data, global_data, r, data0, picked>>
    /\ UNCHANGED <<parseVars, evalVars, packVars, decVars, textVars, uhidVars>>

NextAppend == Append1 \/ Extend2

SpecAppend == InitAppend /\ [][NextAppend]_vars

\* C17 as stated: has_been_populated is true exactly when the report holds
\* at least one bit beyond the optional ID byte: bitsize > 8 if numbered,
\* bitsize > 0 if not.
C17_PopulatedIffBits ==
    LET rep == hidReport.rep
    IN has_been_populated(rep)
           <=> (IF Numbered(rep.report_ID) THEN rep.bitsize > 8
                ELSE rep.bitsize > 0)

-----------------------------------------------------------------------------
(* ReportDescriptor.get and get_str, HidReport.get_str *)

\* largest reportSize asked of ReportDescriptor.get
MaxPayload == 8

\* a keyboard-like report: one array field of two 8-bit elements over the
\* usages Button 1..3
ArrayItems ==
    <<It("Usage Page", 1), It("Usage", 6), It("Collection", 1),
      It("Usage Page", 9), It("Usage Minimum", 1), It("Usage Maximum", 3),
      It("Logical Minimum", 0), It("Logical Maximum", 3),
      It("Report Size", 8), It("Report Count", 2), It("Input", 0),
      It("End Collection", 0)>>

\* a report with ID 1 that holds one 8-bit X field
SmallItems ==
    <<It("Report ID", 1), It("Usage Page", 1), It("Usage", 48),
      It("Logical Minimum", 0), It("Logical Maximum", 255),
      It("Report Size", 8), It("Report Count", 1), It("Input", 2)>>

\* the descriptors decoded: mouse (no ID) with touch screen (ID 1), mouse
\* with the small report (ID 1), touch screen alone, the X-only touch
\* screen, the array report
DecodeDescriptors ==
    {ReportDescriptor(MouseItems \o TouchItems),
     ReportDescriptor(MouseItems \o SmallItems), ReportDescriptor(TouchItems),
     ReportDescriptor(XOnlyItems), ReportDescriptor(ArrayItems)}

\* the report bytes decoded: every prefix of three payloads
BasePayloads == {<<1, 1, 10, 5, 1, 20, 3, 9>>, <<2, 10, 251>>, <<0, 1, 2>>}

Payloads ==
    UNION {{SubSeq(b, 1, n) : n \in 0..(IF Len(b) < MaxPayload THEN Len(b)
                                        ELSE MaxPayload)} : b \in BasePayloads}

\* the report IDs asked of ReportDescriptor.get
LookupIDs == {-1, 0, 1, 2}

\* ReportDescriptor.get, with a too small exact match replaced by the
\* unnumbered report
get_falling_back_when_small(d, reportID, reportSize) ==
    LET ir == d.input_reports
        exact == reportID \in DOMAIN ir /\ ReportSize(ir[reportID]) >= reportSize
    IN IF exact THEN <<ir[reportID]>>
       ELSE IF -1 \in DOMAIN ir /\ ReportSize(ir[-1]) >= reportSize
       THEN <<ir[-1]>>
       ELSE <<>>

\* ReportDescriptor.get: <<>> for None, <<report>> otherwise
get(d, reportID, reportSize) ==
    LET ir == d.input_reports
        found == IF reportID \in DOMAIN ir THEN <<ir[reportID]>>
                 ELSE IF -1 \in DOMAIN ir THEN <<ir[-1]>>
                 ELSE <<>>
    IN IF found # <<>> /\ ReportSize(found[1]) >= reportSize THEN found
       ELSE <<>>

InitDecode ==
    /\ rd \in DecodeDescriptors
    /\ payload \in Payloads
    /\ split_lines \in BOOLEAN
    /\ got = <<>> /\ output = <<>> /\ sep = "" /\ prev = <<>> /\ di = 0
    /\ dstatus = "idle"
    /\ nitems = 0 /\ npush = 0 /\ npop = 0
    /\ snaps = <<>> /\ popped = Globals0 /\ sawC5 = FALSE /\ lastItem = ""
    /\ IdleParse /\ IdlePack /\ IdleFmt /\ IdleText /\ IdleUhid

\* a call of ReportDescriptor.get
Get ==
    /\ dstatus = "idle"
    /\ \E reportID \in LookupIDs, reportSize \in 0..MaxPayload :
          got' = [reportID |-> reportID, reportSize |-> reportSize,
                  report |-> get(rd, reportID, reportSize)]
    /\ dstatus' = "looked"
    /\ UNCHANGED <<payload, split_lines, output, sep, prev, di>>
    /\ UNCHANGED <<parseVars, evalVars, packVars, fmtVars, textVars, uhidVars>>

\* ReportDescriptor.get_str up to the call of HidReport.get_str
DescGetStr ==
    /\ dstatus = "idle"
    /\ IF payload = <<>>
       THEN dstatus' = "IndexError" /\ UNCHANGED <<got, hidReport>>
       ELSE /\ got' = [reportID |-> payload[1], reportSize |-> Len(payload),
                       report |-> get(rd, payload[1], Len(payload))]
            /\ IF got'.report = <<>>
               THEN dstatus' = "None" /\ UNCHANGED hidReport
               ELSE /\ dstatus' = "got"
                    /\ hidReport' = [rep |-> got'.report[1],
                                     prev_seen_usages |-> <<>>,
                                     prev_collection |-> NoneVal]
    /\ UNCHANGED <<payload, split_lines, output, sep, prev, di>>
    /\ UNCHANGED <<pc, cur, data, global_data, r, data0, picked>>
    /\ UNCHANGED <<parseVars, evalVars, packVars, textVars, uhidVars>>

\* the state the loop of get_str works on
GetStrState ==
    [seen |-> hidReport.prev_seen_usages, coll |-> hidReport.prev_collection,
     output |-> output, sep |-> sep, prev |-> prev, err |-> "ok"]

\* the result of a step of get_str, stored
GetStrStore(gs) ==
    /\ hidReport' = [hidReport EXCEPT !.prev_seen_usages = gs.seen,
                                      !.prev_collection = gs.coll]
    /\ output' = gs.output /\ sep' = gs.sep /\ prev' = gs.prev
    /\ dstatus' = IF gs.err = "ok" THEN "loop" ELSE gs.err
    /\ UNCHANGED <<payload, split_lines, got>>
    /\ UNCHANGED <<pc, cur, data, global_data, r, data0, picked>>
    /\ UNCHANGED <<parseVars, evalVars, packVars, textVars, uhidVars>>

\* HidReport.get_str up to its loop
GetStrStart ==
    /\ dstatus = "got"
    /\ GetStrStore(get_str_start(hidReport.rep, payload))
    /\ di' = 1

\* one turn of the loop of HidReport.get_str
GetStrField ==
    /\ dstatus = "loop" /\ di <= Len(hidReport.rep.fields)
    /\ GetStrStore(get_str_field(GetStrState, hidReport.rep.fields[di], di,
                                 payload, split_lines))
    /\ di' = di + 1

\* the loop is over: output is returned
GetStrReturn ==
    /\ dstatus = "loop" /\ di > Len(hidReport.rep.fields)
    /\ dstatus' = "done"
    /\ UNCHANGED <<payload, split_lines, got, output, sep, prev, di>>
    /\ UNCHANGED <<parseVars, evalVars, packVars, fmtVars, textVars, uhidVars>>

NextDecode == Get \/ DescGetStr \/ GetStrStart \/ GetStrField \/ GetStrReturn

SpecDecode == InitDecode /\ [][NextDecode]_vars

\* the bytes field f covers lie inside the buffer
Covered(f, bytes) == (f.start + f.size * f.count - 1) \div 8 < Len(bytes)

\* two successive Finger logical collections that each hold an X and a Y
TwoFingersXY(fields) ==
    /\ Len(fields) >= 1 /\ CollIndex(fields, Len(fields)) = 2
    /\ \A j \in {1, 2} :
          \E i, k \in 1..Len(fields) :
              /\ CollIndex(fields, i) = j /\ CollIndex(fields, k) = j
              /\ fields[i].usage = <<1, 48>> /\ fields[k].usage = <<1, 49>>
              /\ fields[i].logical = <<13, 34>>

\* C12 as stated: get_str on a report of two Finger collections with X and
\* Y each labels the X and Y of the second collection CX and CY, whatever
\* split_lines is.
C12_SecondPairIsCXCY ==
    dstatus = "done" =>
        LET fields == hidReport.rep.fields
        IN TwoFingersXY(fields) =>
              \A n \in 1..Len(output) :
                  (output[n].kind = "var" /\ CollIndex(fields, output[n].i) = 2)
                      => /\ fields[output[n].i].usage = <<1, 48>>
                              => output[n].label = "CX"
                         /\ fields[output[n].i].usage = <<1, 49>>
                              => output[n].label = "CY"

\* C13 as stated: get_str on a buffer that ends before the bytes of a field
\* does not raise, and shows the field as <.>.
C13_ShortBufferShowsNoData ==
    dstatus \in {"loop", "done", "TypeError"} =>
        /\ dstatus # "TypeError"
        /\ \A n \in 1..Len(output) :
              (/\ output[n].kind = "var"
               /\ ~Covered(hidReport.rep.fields[output[n].i], payload))
                  => output[n].value.t = "str" /\ output[n].value.v = "<.>"

\* C16: get(report_id, n) selects the input report keyed by report_id, else
\* the unnumbered one, else nothing, and returns it only if its size is at
\* least n, with no second choice when the selected report is too small;
\* get_str returns None exactly when get does.
C16_ReportLookup ==
    got # <<>> =>
        LET ir == rd.input_reports
            sel == IF got.reportID \in DOMAIN ir THEN <<ir[got.reportID]>>
                   ELSE IF -1 \in DOMAIN ir THEN <<ir[-1]>>
                   ELSE <<>>
        IN /\ got.report = (IF sel # <<>> /\ sel[1].bitsize \div 8 >= got.reportSize
                            THEN sel ELSE <<>>)
           /\ dstatus # "looked" => (dstatus = "None" <=> got.report = <<>>)

\* get_str looked up report ID 2, which the descriptor does not have, and
\* decoded the bytes with the unnumbered report
C16_Witness ==
    /\ dstatus = "done" /\ got.reportID = 2 /\ got.report # <<>>
    /\ got.report[1].report_ID = -1 /\ 1 \in DOMAIN rd.input_reports

\* the value the rule of the specification selects for attribute `field`
Selected(head, glob, field) ==
    IF field \in DOMAIN head THEN head[field]
    ELSE IF field \in DOMAIN glob THEN glob[field]
    ELSE 0

\* the lookup format_report made for field i, if it made one
Lookups(t, i) == {p \in {picked[t][k] : k \in 1..Len(picked[t])} : p.i = i}

\* field i of the returned payload reads back what the rule selects
ReadsBackSelected(t, i) ==
    LET field == hidReport.rep.fields[i]
    IN IF FieldConst(field) THEN get_values(field, r[t]) = <<0>>
       ELSE /\ Lookups(t, i) # {}
            /\ \A p \in Lookups(t, i) :
                  get_values(field, r[t]) =
                      <<Selected(p.head, global_data[t], AttrName(p.label))>>

\* v fits the bits of the field: unsigned in size bits, or two's complement
\* in size >= 2 bits when the logical minimum is negative
FitsField(field, v) ==
    IF field.logical_min < 0
    THEN field.size >= 2 /\ v >= -Pow2(field.size - 1)
         /\ v < Pow2(field.size - 1)
    ELSE v >= 0 /\ v < Pow2(field.size)

\* every value format_report selected fits its field
AllSelectedFit(t) ==
    \A k \in 1..Len(picked[t]) :
        LET p == picked[t][k]
        IN FitsField(hidReport.rep.fields[p.i],
                     Selected(p.head, global_data[t], AttrName(p.label)))

\* C10 as stated: when format_report returns, every non-constant field, read
\* back from the payload, yields the attribute of the head frame if it has
\* it, else that of the global frame, else 0, and every constant field
\* reads zero.
C10_ValueSelection ==
    pc[1] = "done" =>
        \A i \in 1..Len(hidReport.rep.fields) : ReadsBackSelected(1, i)

\* C10, amended: the same, provided every selected value fits the bits of
\* its field (a value that does not fit is written modulo the field size,
\* or spills over the neighbouring bits).
C10_ValueSelectionWhenFits ==
    (pc[1] = "done" /\ AllSelectedFit(1)) =>
        \A i \in 1..Len(hidReport.rep.fields) : ReadsBackSelected(1, i)

\* the mouse frame b1=1, b2=0, b3=0, x=10, y=-5 has given [0x01, 0x0A, 0xFB]
C10_Witness ==
    /\ pc[1] = "done"
    /\ hidReport.rep = MouseReport
    /\ Len(data0[1]) = 1 /\ data0[1][1].x = 10 /\ data0[1][1].y = -5
    /\ AllSelectedFit(1)
    /\ r[1] = <<1, 10, 251>>

\* the usages of the fields of the j-th collection, in order
RECURSIVE CollUsages(_, _, _)
CollUsages(fields, j, n) ==
    IF n = 0 THEN <<>>
    ELSE IF CollIndex(fields, n) = j
         THEN Append(CollUsages(fields, j, n - 1),
                     <<fields[n].usage, FieldConst(fields[n])>>)
         ELSE CollUsages(fields, j, n - 1)

\* the fields lie in successive collections that each repeat the same usages
RepeatsUsages(fields) ==
    /\ Len(fields) >= 1
    /\ \A j \in 1..CollIndex(fields, Len(fields)) :
          CollUsages(fields, j, Len(fields)) = CollUsages(fields, 1, Len(fields))

\* C11 as stated: format_report on a report of k successive collections that
\* repeat the same usages, called with k frames, takes the values of the
\* fields of the j-th collection from the j-th frame and leaves none of the
\* k frames in the caller's list.
C11_FrameOrder ==
    LET fields == hidReport.rep.fields
    IN (/\ pc[1] = "done" /\ RepeatsUsages(fields)
        /\ Len(data0[1]) = CollIndex(fields, Len(fields)))
           => /\ \A n \in 1..Len(picked[1]) :
                    picked[1][n].head = data0[1][CollIndex(fields, picked[1][n].i)]
              /\ data[1] = <<>>

\* C9: format_report leaves the report as it was for every other caller:
\* each of two calls interleaved on the same report returns the payload it
\* returns when run alone.
C9_SameResultAsAlone ==
    \A t \in DOMAIN pc :
        pc[t] = "done" =>
            r[t] = format_report(hidReport.rep, data0[t], global_data[t]).r


\* C18 as stated: once construction has returned, the descriptor holds only
\* the item list, the three report maps and win8, and none of the state that
\* exists for parsing.
C18_OnlyLastingState ==
    rd.status = "done"
        => rd.attrs = {"rdesc_items", "input_reports", "output_reports",
                       "feature_reports", "win8"}

-----------------------------------------------------------------------------
(* Text front end: HidRDescItem.get_human_descr and from_human_descr.     *)
(* A line is the record [name, kind, n, toks]: kind "none" is a bare      *)
(* name, kind "int" is `name (n)` with n the number the decimal text      *)
(* denotes, kind "str" is `name (toks)` with toks the pieces of the text  *)
(* between the parentheses (and n the number a hexadecimal suffix         *)
(* denotes).  indent is the number of leading spaces.                     *)

\* longest descriptor, in items, that is printed and parsed again
MaxLines == 2

Line(indent, name, kind, n, toks) ==
    [indent |-> indent, name |-> name, kind |-> kind, n |-> n, toks |-> toks]

\* collections, keyed by the upper-case name
collections == ("PHYSICAL" :> 0 @@ "APPLICATION" :> 1 @@ "LOGICAL" :> 2)

\* str.capitalize() and str.upper() on the collection names
Capitalize(s) ==
    CASE s = "PHYSICAL" -> "Physical" [] s = "APPLICATION" -> "Application"
      [] s = "LOGICAL" -> "Logical" [] OTHER -> s

Upper(s) ==
    CASE s = "Physical" -> "PHYSICAL" [] s = "Application" -> "APPLICATION"
      [] s = "Logical" -> "LOGICAL" [] OTHER -> s

\* the page the usage table names Sensor
SensorPage == 32

\* the tables of get_human_descr and from_human_descr for Unit
systems == <<"None", "SILinear", "SIRotation", "EngLinear", "EngRotation">>

units ==
    << <<"None", "Centimeter", "Radians", "Inch", "Degrees">>,
       <<"None", "Gram", "Gram", "Slug", "Slug">>,
       <<"Seconds", "Seconds", "Seconds", "Seconds">>,
       <<"None", "Kelvin", "Kelvin", "Fahrenheit", "Fahrenheit">>,
       <<"Ampere", "Ampere", "Ampere", "Ampere">>,
       <<"Candela", "Candela", "Candela", "Candela">> >>

\* str(v) of a 4-bit signed exponent, and int() of that text
ExpStr ==
    (-8 :> "-8" @@ -7 :> "-7" @@ -6 :> "-6" @@ -5 :> "-5" @@ -4 :> "-4"
     @@ -3 :> "-3" @@ -2 :> "-2" @@ -1 :> "-1" @@ 0 :> "0" @@ 1 :> "1"
     @@ 2 :> "2" @@ 3 :> "3" @@ 4 :> "4" @@ 5 :> "5" @@ 6 :> "6" @@ 7 :> "7")

IsExpText(s) == \E v \in DOMAIN ExpStr : ExpStr[v] = s

ExpVal(s) == CHOOSE v \in DOMAIN ExpStr : ExpStr[v] = s

\* the element of a one-element set: Only({e(x) : x \in {v}}) is e(v) with v
\* worked out once
Only(S) == CHOOSE x \in S : TRUE

\* the text of one dimension of a Unit, before the text of the dimensions
\* that follow
UnitDim(i, v, system, rest) ==
    [err |-> rest.err,
     toks |-> <<units[i][system + 1]>>
              \o (IF v # 1 THEN <<"^", ExpStr[v]>> ELSE <<>>)
              \o <<",">> \o rest.toks]

\* the loop of get_human_descr over the dimensions i, i - 1, ..., 1 of a Unit
RECURSIVE UnitDims(_, _)
UnitDims(value, i) ==
    IF i = 0 THEN [err |-> "ok", toks |-> <<>>]
    ELSE IF twos_comp((value \div Pow2(4 * i)) % 16, 4) = 0
    THEN UnitDims(value, i - 1)
    ELSE IF (value % 16) + 1 > Len(units[i])
    THEN [err |-> "IndexError", toks |-> <<>>]
    ELSE Only({UnitDim(i, v, value % 16, rest) :
                  v \in {twos_comp((value \div Pow2(4 * i)) % 16, 4)},
                  rest \in {UnitDims(value, i - 1)}})

\* the text of a Unit: the dimensions, then the system
UnitToks(value) ==
    Only({IF dims.err # "ok" THEN dims
          ELSE IF (value % 16) + 1 > Len(systems)
          THEN [err |-> "IndexError", toks |-> <<>>]
          ELSE [err |-> "ok", toks |-> dims.toks \o <<systems[(value % 16) + 1]>>] :
             dims \in {UnitDims(value, 6)}})

\* bit k of value as a flag word, or nothing
FlagOpt(value, k, s) == IF (value \div Pow2(k)) % 2 = 1 THEN <<",", s>> ELSE <<>>

\* a flag list that stops at Vol
FlagToksEight(value) ==
    <<IF value % 2 = 1 THEN "Cnst" ELSE "Data", ",",
      IF (value \div 2) % 2 = 1 THEN "Var" ELSE "Arr", ",",
      IF (value \div 4) % 2 = 1 THEN "Rel" ELSE "Abs">>
    \o FlagOpt(value, 3, "Wrap") \o FlagOpt(value, 4, "NonLin")
    \o FlagOpt(value, 5, "NoPref") \o FlagOpt(value, 6, "Null")
    \o FlagOpt(value, 7, "Vol")

\* the flag list of Input, Output and Feature
FlagToks(value) ==
    <<IF value % 2 = 1 THEN "Cnst" ELSE "Data", ",",
      IF (value \div 2) % 2 = 1 THEN "Var" ELSE "Arr", ",",
      IF (value \div 4) % 2 = 1 THEN "Rel" ELSE "Abs">>
    \o FlagOpt(value, 3, "Wrap") \o FlagOpt(value, 4, "NonLin")
    \o FlagOpt(value, 5, "NoPref") \o FlagOpt(value, 6, "Null")
    \o FlagOpt(value, 7, "Vol") \o FlagOpt(value, 8, "Buff")

\* what get_human_descr returns: the line and the next indentation
Descr(line, indent) == [err |-> "ok", line |-> line, indent |-> indent]

\* get_human_descr raises
DescrRaise(e) == [err |-> e, line |-> Line(0, "", "none", 0, <<>>), indent |-> 0]

\* the Usage branch of get_human_descr
usage_descr(value, page, indent) ==
    IF page \in DOMAIN USAGES /\ value \in DOMAIN USAGES[page].names
    THEN Descr(Line(indent, "Usage", "str", 0, <<USAGES[page].names[value]>>), indent)
    ELSE IF page = SensorPage
    THEN Descr(Line(indent, "Usage", "str", value, <<"Unknown Usage 0x">>), indent)
    ELSE Descr(Line(indent, "Usage", "str", value, <<"Vendor Usage 0x">>), indent)

\* the Unit branch of get_human_descr
unit_descr(value, indent) ==
    Only({IF u.err # "ok" THEN DescrRaise(u.err)
          ELSE Descr(Line(indent, "Unit", "str", 0, u.toks), indent) :
             u \in {UnitToks(value)}})

\* HidRDescItem.get_human_descr: the line of the item `it` whose usage_page
\* attribute is the composite up, at indentation indent; the indentation of
\* the next line; or the exception raised
get_human_descr(it, up, indent) ==
    IF it.item \in {"Report ID", "Usage Minimum", "Usage Maximum",
                    "Logical Minimum", "Physical Minimum", "Logical Maximum",
                    "Physical Maximum", "Report Size", "Report Count",
                    "Unit Exponent"}
    THEN Descr(Line(indent, it.item, "int", it.value, <<>>), indent)
    ELSE IF it.item = "Collection"
    THEN IF it.value \in DOMAIN INV_COLLECTIONS
         THEN Descr(Line(indent, it.item, "str", 0,
                         <<Capitalize(INV_COLLECTIONS[it.value])>>), indent + 1)
         ELSE DescrRaise("KeyError")
    ELSE IF it.item = "End Collection"
    THEN Descr(Line(indent - 1, it.item, "none", 0, <<>>), indent - 1)
    ELSE IF it.item = "Usage Page"
    THEN IF it.value \in DOMAIN USAGES
         THEN Descr(Line(indent, it.item, "str", 0, <<USAGES[it.value].page_name>>),
                    indent)
         ELSE Descr(Line(indent, it.item, "str", it.value, <<"Vendor Usage Page 0x">>),
                    indent)
    ELSE IF it.item = "Usage" THEN usage_descr(it.value, up[1], indent)
    ELSE IF it.item \in {"Input", "Output", "Feature"}
    THEN Descr(Line(indent, it.item, "str", 0, FlagToks(it.value)), indent)
    ELSE IF it.item = "Unit" THEN unit_descr(it.value, indent)
    ELSE Descr(Line(indent, it.item, "none", 0, <<>>), indent)

\* rdesc_item.usage_page as _parse_item sets it: the global usage page the
\* evaluator holds when it reaches item i
UsagePageAt(its, i) ==
    Glob(ParseItems(ReportDescriptor0(its), SubSeq(its, 1, i - 1))).usage_page

\* a line put before the lines that follow it
DumpCons(line, rest) == [err |-> rest.err, lines |-> <<line>> \o rest.lines]

\* the lines of the items its from item i on, as ReportDescriptor.dump
\* threads the indentation through get_human_descr
RECURSIVE DumpFrom(_, _, _)
DumpFrom(its, i, indent) ==
    IF i > Len(its) THEN [err |-> "ok", lines |-> <<>>]
    ELSE Only({IF d.err # "ok" THEN [err |-> d.err, lines |-> <<>>]
               ELSE Only({DumpCons(d.line, rest) :
                             rest \in {DumpFrom(its, i + 1, d.indent)}}) :
                  d \in {get_human_descr(its[i], UsagePageAt(its, i), indent)}})

\* len(f'{n:x}'): the hexadecimal digits of n and its minus sign
RECURSIVE HexDigits(_)
HexDigits(n) == IF n < 16 THEN 1 ELSE 1 + HexDigits(n \div 16)

HexLen(n) == IF n < 0 THEN 1 + HexDigits(-n) ELSE HexDigits(n)

\* _parse('{unit}^{exp:d},{system}', data): the first ^ that is followed by
\* an integer, a comma and a rest; <<>> when the pattern does not match
ParseUnitExp(toks) ==
    LET ks == {k \in 2..(Len(toks) - 3) :
                  /\ toks[k] = "^" /\ IsExpText(toks[k + 1]) /\ toks[k + 2] = ","}
    IN IF ks = {} THEN <<>>
       ELSE LET k == CHOOSE m \in ks : \A o \in ks : m <= o
            IN <<[unit |-> SubSeq(toks, 1, k - 1), exp |-> ExpVal(toks[k + 1]),
                  system |-> SubSeq(toks, k + 3, Len(toks))]>>

\* _parse('{unit},{system}', data)
ParseUnitPlain(toks) ==
    LET ks == {k \in 2..(Len(toks) - 1) : toks[k] = ","}
    IN IF ks = {} THEN <<>>
       ELSE LET k == CHOOSE m \in ks : \A o \in ks : m <= o
            IN <<[unit |-> SubSeq(toks, 1, k - 1), exp |-> 1,
                  system |-> SubSeq(toks, k + 1, Len(toks))]>>

\* the dimensions whose table holds the unit, and the systems of that name
UnitDimsOf(unit) ==
    {i \in 1..Len(units) : \E j \in 1..Len(units[i]) : unit = <<units[i][j]>>}

SystemsOf(system) == {s \in 1..Len(systems) : system = <<systems[s]>>}

Least(S) == CHOOSE a \in S : \A o \in S : a <= o

\* the Unit branch of from_human_descr after the pattern has matched
unit_value_matched(m) ==
    IF SystemsOf(m.system) = {} THEN [err |-> "ValueError", value |-> 0]
    ELSE IF UnitDimsOf(m.unit) = {} THEN [err |-> "TypeError", value |-> 0]
    ELSE [err |-> "ok",
          value |-> BitOr(to_twos_comp(m.exp, 4) * Pow2(Least(UnitDimsOf(m.unit)) * 4),
                          Least(SystemsOf(m.system)) - 1)]

\* the Unit branch of from_human_descr
unit_value_of(toks) ==
    Only({IF m = <<>> THEN [err |-> "AssertionError", value |-> 0]
          ELSE unit_value_matched(m[1]) :
             m \in {IF \E k \in 1..Len(toks) : toks[k] = "^"
                    THEN ParseUnitExp(toks) ELSE ParseUnitPlain(toks)}})

\* the words from_human_descr looks for in the data of Input, Output, Feature
possible_types ==
    <<"Cnst", "Var", "Rel", "Wrap", "NonLin", "NoPref", "Null", "Vol", "Buff">>

\* the loop over possible_types from word i on: bit i - 1 for a word found
RECURSIVE FlagsFrom(_, _)
FlagsFrom(toks, i) ==
    IF i > Len(possible_types) THEN 0
    ELSE (IF \E k \in 1..Len(toks) : toks[k] = possible_types[i]
          THEN Pow2(i - 1) ELSE 0) + FlagsFrom(toks, i + 1)

\* the flags of Input, Output and Feature: every known word found in data
flags_value_of(toks) == FlagsFrom(toks, 1)

\* the payload bytes of v, least significant first
RECURSIVE LEBytes(_, _)
LEBytes(v, n) == IF n = 0 THEN <<>> ELSE <<v % 256>> \o LEBytes(v \div 256, n - 1)

\* HidRDescItem.__init__ with a value that is given beside the payload
HidRDescItemValue(hid, value, raw_values) ==
    LET name == inv_hid[hid]
        v == IF name \in {"Logical Minimum", "Physical Minimum"}
             THEN twos_comp(value, Len(raw_values) * 8)
             ELSE IF name = "Unit Exponent" /\ value > 7 THEN value - 16
             ELSE value
    IN [hid |-> hid, item |-> name, value |-> v, raw_value |-> raw_values]

\* what the first half of from_human_descr leaves: the value (<<>> for
\* None), the running usage page, or the exception raised
TextValue(e, v, up) == [err |-> e, value |-> v, usage_page |-> up]

\* USAGES.usage_page_from_name(data).page_id
page_value_of(toks, usage_page) ==
    Only({IF ps = {} THEN TextValue("AttributeError", <<>>, usage_page)
          ELSE TextValue("ok", <<Least(ps)>>, Least(ps)) :
             ps \in {{p \in DOMAIN USAGES : toks = <<USAGES[p].page_name>>}}})

\* USAGES[usage_page].from_name[data]
usage_value_of(toks, usage_page) ==
    Only({IF us = {} THEN TextValue("KeyError", <<>>, usage_page)
          ELSE TextValue("ok", <<Least(us)>>, usage_page) :
             us \in {IF usage_page \in DOMAIN USAGES
                     THEN {u \in DOMAIN USAGES[usage_page].names :
                              toks = <<USAGES[usage_page].names[u]>>}
                     ELSE {}}})

\* collections[data.upper()]
collection_value_of(toks, usage_page) ==
    IF Len(toks) = 1 /\ Upper(toks[1]) \in DOMAIN collections
    THEN TextValue("ok", <<collections[Upper(toks[1])]>>, usage_page)
    ELSE TextValue("KeyError", <<>>, usage_page)

\* the Unit branch as a value
unit_text_value(toks, usage_page) ==
    Only({TextValue(u.err, <<u.value>>, usage_page) : u \in {unit_value_of(toks)}})

\* the value from_human_descr reads from the text between the parentheses
text_value_of(line, usage_page) ==
    IF line.kind = "none" THEN TextValue("ok", <<>>, usage_page)
    ELSE IF line.kind = "int"
    THEN TextValue("ok", <<line.n>>,
                   IF line.name = "Usage Page" THEN line.n ELSE usage_page)
    ELSE IF line.name = "Usage Page" THEN page_value_of(line.toks, usage_page)
    ELSE IF line.name = "Usage" THEN usage_value_of(line.toks, usage_page)
    ELSE IF line.name = "Collection" THEN collection_value_of(line.toks, usage_page)
    ELSE IF line.name \in {"Input", "Output", "Feature"}
    THEN TextValue("ok", <<flags_value_of(line.toks)>>, usage_page)
    ELSE IF line.name = "Unit" THEN unit_text_value(line.toks, usage_page)
    ELSE TextValue("ok", <<>>, usage_page)

\* a payload of as many bytes as the bits need, 3 bytes included
v_count_rounded_up(value) ==
    IF value = <<>> THEN 0 ELSE (HexLen(value[1] + 1) * 4 + 7) \div 8

\* v_count of from_human_descr: bit_size is four times the length of the
\* hexadecimal text of value + 1, and 0 for None
v_count_of(value) ==
    IF value = <<>> THEN 0
    ELSE IF HexLen(value[1] + 1) * 4 <= 8 THEN 1
    ELSE IF HexLen(value[1] + 1) * 4 <= 16 THEN 2
    ELSE 4

\* the value from_human_descr encodes: 0 for None, and a negative Unit
\* Exponent raised by 16
encoded_value_of(name, value, v_count) ==
    IF value = <<>> THEN 0
    ELSE IF name = "Unit Exponent" /\ value[1] < 0
    THEN to_twos_comp(value[1] + 16, v_count * 8)
    ELSE value[1]

\* hid_items[hid_type[name]][name], as the set of the tags of that name
TagsOf(name) == {h \in DOMAIN inv_hid : inv_hid[h] = name}

\* the second half of from_human_descr: the item of the value read
item_of_text_value(name, tv, usage_page) ==
    IF tv.err # "ok" THEN [err |-> tv.err, it |-> NoItem, usage_page |-> usage_page]
    ELSE IF TagsOf(name) = {}
    THEN [err |-> "KeyError", it |-> NoItem, usage_page |-> usage_page]
    ELSE Only({[err |-> "ok",
                it |-> HidRDescItemValue(tag, value, LEBytes(value, v_count)),
                usage_page |-> tv.usage_page] :
                  tag \in TagsOf(name),
                  v_count \in {v_count_of(tv.value)},
                  value \in {encoded_value_of(name, tv.value, v_count_of(tv.value))}})

\* HidRDescItem.from_human_descr: the item of one line, the running usage
\* page after it, or the exception raised
from_human_descr(line, usage_page) ==
    Only({item_of_text_value(line.name, tv, usage_page) :
             tv \in {text_value_of(line, usage_page)}})

\* an item put before the items that follow it
ItemsCons(it, rest) == [err |-> rest.err, its |-> <<it>> \o rest.its]

\* the loop of ReportDescriptor.from_human_descr over the lines from i on
RECURSIVE ItemsOfLines(_, _, _)
ItemsOfLines(lines, i, usage_page) ==
    IF i > Len(lines) THEN [err |-> "ok", its |-> <<>>]
    ELSE Only({IF one.err # "ok" THEN [err |-> one.err, its |-> <<>>]
               ELSE Only({ItemsCons(one.it, rest) :
                             rest \in {ItemsOfLines(lines, i + 1, one.usage_page)}}) :
                  one \in {from_human_descr(lines[i], usage_page)}})

\* the items descriptors are put together from, as bytes: Logical Minimum
\* -127, 0, -1 and 128, Physical Minimum -127, Logical Maximum 127 and 65535,
\* Usage Page 1, 0xff00 and 0x0b, Usage 0x30, Unit 0x31, 0x11, 0x111 and 0x01,
\* Unit Exponent -3, Input 0x02 and 0x102, Collection 1, End Collection,
\* Report Size 8, Push, and a Logical Minimum cut short
TextPieces ==
    {<<21, 129>>, <<21, 0>>, <<21, 255>>, <<22, 128, 0>>, <<53, 129>>,
     <<37, 127>>, <<39, 255, 255, 0, 0>>, <<5, 1>>, <<6, 0, 255>>, <<5, 11>>,
     <<9, 48>>, <<101, 49>>, <<101, 17>>, <<102, 17, 1>>, <<101, 1>>,
     <<85, 13>>, <<129, 2>>, <<130, 2, 1>>, <<161, 1>>, <<192>>, <<117, 8>>,
     <<164>>, <<21>>}

RECURSIVE Concat(_)
Concat(ss) == IF ss = <<>> THEN <<>> ELSE Head(ss) \o Concat(Tail(ss))

\* the lines handed to from_human_descr as they stand
GivenLines ==
    {Line(0, "Logical Minimum", "int", -127, <<>>),
     Line(0, "Physical Minimum", "int", -1, <<>>),
     Line(0, "Unit", "str", 0, <<"SILinear", ",", "Centimeter", "^", "3">>),
     Line(0, "Unit", "str", 0, <<"Centimeter", "^", "3", ",", "SILinear">>),
     Line(0, "Report Count", "int", 255, <<>>)}

InitText ==
    /\ \/ /\ rdesc \in {Concat(ps) : ps \in UNION {[1..n -> TextPieces] : n \in 0..MaxLines}}
          /\ pstatus = "parsing" /\ text = <<>> /\ tstatus = "idle"
       \/ /\ rdesc = <<>> /\ pstatus = "text" /\ tstatus = "printed"
          /\ text \in {<<l>> : l \in GivenLines}
    /\ idx = 0 /\ items = <<>> /\ titems = <<>> /\ text2 = <<>>
    /\ IdleEval /\ IdlePack /\ IdleFmt /\ IdleDec /\ IdleUhid

\* ReportDescriptor.dump of the descriptor parsed from bytes
Dump ==
    /\ pstatus = "built" /\ tstatus = "idle"
    /\ \E d \in {DumpFrom(items, 1, 0)} :
          /\ text' = d.lines
          /\ tstatus' = IF d.err = "ok" THEN "printed" ELSE d.err
    /\ UNCHANGED <<titems, text2>>
    /\ UNCHANGED <<parseVars, evalVars, packVars, fmtVars, decVars, uhidVars>>

\* the outcome of ReportDescriptor.from_human_descr once the lines are read:
\* the exception of a line, or that of the constructor
ParsedStatus(p) ==
    IF p.err # "ok" THEN p.err
    ELSE Only({IF st = "done" THEN "parsed" ELSE st :
                  st \in {ReportDescriptor(p.its).status}})

\* ReportDescriptor.from_human_descr of the printed lines: the items of the
\* lines, then the constructor
FromHumanDescr ==
    /\ tstatus = "printed"
    /\ \E p \in {ItemsOfLines(text, 1, 0)} :
          /\ titems' = p.its
          /\ tstatus' = ParsedStatus(p)
    /\ UNCHANGED <<text, text2>>
    /\ UNCHANGED <<parseVars, evalVars, packVars, fmtVars, decVars, uhidVars>>

\* ReportDescriptor.dump of the descriptor parsed from the text
DumpAgain ==
    /\ tstatus = "parsed"
    /\ \E d \in {DumpFrom(titems, 1, 0)} :
          /\ text2' = d.lines
          /\ tstatus' = IF d.err = "ok" THEN "done" ELSE d.err
    /\ UNCHANGED <<text, titems>>
    /\ UNCHANGED <<parseVars, evalVars, packVars, fmtVars, decVars, uhidVars>>

NextText ==
    \/ FromBytesItem \/ FromBytesEnd \/ FromBytesRaise \/ Construct
    \/ Dump \/ FromHumanDescr \/ DumpAgain

SpecText == InitText /\ [][NextText]_vars

(***************************************************************************)
(* The pretty-printer on one Main item of every flag value and on one Unit *)
(* item of every system, and the text front end on the line printed.       *)
(***************************************************************************)

\* Input, Output and Feature
FlagHids == {128, 144, 176}

\* one Main item of flag value v, in the shortest payload that holds it
FlagStrings ==
    {IF v < 256 THEN <<hid + 1, v>> ELSE <<hid + 2, v % 256, v \div 256>> :
        hid \in FlagHids, v \in 0..511}

\* exponent nibbles: 1, 2, -8 and -1
UnitExps == {1, 2, 8, 15}

\* one Unit item of a system 0..4 with one dimension raised to an exponent,
\* or with length and one more dimension
UnitValues ==
    {e * Pow2(4 * i) + system : e \in UnitExps, i \in 1..6, system \in 0..4}
    \cup {16 + Pow2(4 * i) + system : i \in 2..6, system \in 0..4}

UnitStrings == {<<103>> \o LEBytes(v, 4) : v \in UnitValues}

InitPrint ==
    /\ rdesc \in FlagStrings \cup UnitStrings \cup {<<130, 2>>}
    /\ pstatus = "parsing" /\ text = <<>> /\ tstatus = "idle"
    /\ idx = 0 /\ items = <<>> /\ titems = <<>> /\ text2 = <<>>
    /\ IdleEval /\ IdlePack /\ IdleFmt /\ IdleDec /\ IdleUhid

SpecPrint == InitPrint /\ [][NextText]_vars

\* the tag and the value of every item
TagsAndValues(its) == [i \in 1..Len(its) |-> <<its[i].hid, its[i].value>>]

\* C14 as stated: the printed lines of a descriptor parsed from bytes parse
\* again, to items with the same tags and values, whose printed lines are
\* the same lines.
C14_TextRoundTrip ==
    (pstatus = "built" /\ tstatus \notin {"idle", "printed", "parsed"})
        => /\ tstatus = "done"
           /\ TagsAndValues(titems) = TagsAndValues(items)
           /\ text2 = text

\* the header law of one item
HeaderLaw(it) ==
    LET b == ItemBytes(it)
        s == b[1] % 4
    IN /\ Len(b) = 1 + <<0, 1, 2, 4>>[s + 1]
       /\ b[1] - s = it.hid
       /\ Len(b) - 1 \in {0, 1, 2, 4}

\* C15: every item made by from_bytes or by from_human_descr has a header
\* whose low two bits s give its length, 1 + [0,1,2,4][s], whose upper six
\* bits are its tag, and a payload of 0, 1, 2 or 4 bytes.
C15_HeaderLaw ==
    /\ \A i \in 1..Len(items) : HeaderLaw(items[i])
    /\ \A i \in 1..Len(titems) : HeaderLaw(titems[i])

\* items of both origins are there, one of them with a 4-byte payload made
\* by from_human_descr
C15_Witness ==
    /\ items # <<>> /\ tstatus = "done"
    /\ \E i \in 1..Len(titems) : Len(titems[i].raw_value) = 4
    /\ \E i \in 1..Len(titems) : Len(titems[i].raw_value) = 1

\* C36: for every flag value v in 0..511, the flag list printed for an
\* Input, Output or Feature item of value v parses to an item of the same
\* name and value v; each of the nine flag names alone parses to its own
\* bit, Cnst to bit 0 up to Buff to bit 8, and Data, Arr and Abs to none.
C36_FlagRoundTrip ==
    /\ \A i \in 1..Len(titems) :
          (/\ tstatus \in {"parsed", "done"}
           /\ items[i].item \in {"Input", "Output", "Feature"}
           /\ items[i].value \in 0..511)
             => /\ titems[i].item = items[i].item
                /\ titems[i].value = items[i].value
                /\ text[i].toks = FlagToks(items[i].value)
    /\ \A k \in 1..9 : flags_value_of(<<possible_types[k]>>) = Pow2(k - 1)
    /\ flags_value_of(<<"Data", ",", "Arr", ",", "Abs">>) = 0

\* the item 82 ff 01, every flag set, is printed, parsed and printed again
C36_Witness ==
    /\ rdesc = <<130, 255, 1>> /\ tstatus = "done"
    /\ Len(text[1].toks) = 17
    /\ titems[1].value = 511 /\ text2 = text

\* the token stated for dimension i of a system: Seconds, Ampere and Candela
\* whatever the system, the table's word for length, mass and temperature
StatedToken(i, system) ==
    CASE i = 3 -> "Seconds" [] i = 5 -> "Ampere" [] i = 6 -> "Candela"
      [] OTHER -> units[i][system + 1]

\* C37 as stated: a Unit item whose system nibble is in 0..4 is printed
\* without an exception, with the token of every dimension whose exponent is
\* not zero, and with the name of the system last.
C37_UnitRendering ==
    (/\ pstatus = "built" /\ Len(items) = 1 /\ items[1].item = "Unit"
     /\ items[1].value % 16 \in 0..4 /\ tstatus # "idle")
        => /\ Len(text) = 1
           /\ \A i \in 1..6 :
                 (items[1].value \div Pow2(4 * i)) % 16 # 0
                    => \E k \in 1..Len(text[1].toks) :
                          text[1].toks[k] = StatedToken(i, items[1].value % 16)
           /\ Last(text[1].toks) = systems[(items[1].value % 16) + 1]

\* the payload width the text front end is said to choose for a line
MinimalWidth(line) ==
    IF line.kind = "none" THEN 0
    ELSE IF line.n \in 0..255 THEN 1
    ELSE IF line.n \in 256..65535 THEN 2
    ELSE 4

\* C35 as stated: an item parsed from a line without argument has no payload
\* byte, one parsed from a line with the number n has 1 byte for n in 0..255,
\* 2 bytes for n in 256..65535 and 4 bytes otherwise, and the payload is the
\* value little-endian.
C35_MinimalWidth ==
    (tstatus # "printed" /\ Len(titems) = Len(text)) =>
        \A i \in 1..Len(titems) :
            text[i].kind \in {"none", "int"} =>
                /\ Len(titems[i].raw_value) = MinimalWidth(text[i])
                /\ titems[i].raw_value
                      = LEBytes(IF text[i].kind = "none" THEN 0 ELSE text[i].n,
                                MinimalWidth(text[i]))

\* C19 as stated: the line Logical Minimum (-127) parses to the value -127
\* with the bytes 15 81, the bytes 15 81 decode to -127 and print as that
\* line, and every negative 8-bit Logical or Physical Minimum parses from its
\* line to its value.
C19_SignedMinimum ==
    /\ \A i \in 1..Len(items) :
          ItemBytes(items[i]) = <<21, 129>> => items[i].value = -127
    /\ (tstatus = "printed" /\ items = <<HidRDescItem(20, <<129>>).it>>)
          => text = <<Line(0, "Logical Minimum", "int", -127, <<>>)>>
    /\ \A i \in 1..Len(titems) :
          (/\ tstatus \in {"parsed", "done"}
           /\ text[i].name \in {"Logical Minimum", "Physical Minimum"}
           /\ text[i].kind = "int" /\ text[i].n \in -128..-1)
             => /\ titems[i].value = text[i].n
                /\ (text[i].n = -127 /\ text[i].name = "Logical Minimum")
                      => ItemBytes(titems[i]) = <<21, 129>>

\* C20 as stated: the line Unit (SILinear,Centimeter^3) parses to the value
\* 0x113, and the line printed for that item parses to the same value.
C20_UnitComposition ==
    text = <<Line(0, "Unit", "str", 0, <<"SILinear", ",", "Centimeter", "^", "3">>)>>
        => /\ tstatus \in {"printed", "parsed", "done"}
           /\ tstatus \in {"parsed", "done"}
                 => /\ titems[1].value = 275
                    /\ LET d == get_human_descr(titems[1], <<0, 0>>, 0)
                       IN /\ d.err = "ok"
                          /\ from_human_descr(d.line, 0).err = "ok"
                          /\ from_human_descr(d.line, 0).it.value = 275

-----------------------------------------------------------------------------
(* ReportDescriptor.__init__ on a given item list: self.rdesc_items holds  *)
(* the list and the loop hands one item after the other to _parse_item    *)

\* longest item list of the routing streams, and largest Report Count of
\* the expansion streams
MaxStream == 4
MaxCount == 3

\* the items of the routing streams: two report IDs, the stack, a usage
\* page, a usage, an application collection, and array Main items of two
\* directions
RouteItems ==
    {It("Report ID", 1), It("Report ID", 2), It("Push", 0), It("Pop", 0),
     It("Usage Page", 1), It("Usage", 2), It("Collection", 1),
     It("Input", 0), It("Feature", 0)}

RouteStreams == UNION {[1..n -> RouteItems] : n \in 0..MaxStream}

\* the expansion streams: usages, a usage range, Report Count, Report Size
\* and one Input item of every combination of the Constant and Variable bits
ExpandStreams ==
    {us \o mn \o mx \o <<It("Report Count", c), It("Report Size", s), It("Input", v)>> :
        us \in {<<>>, <<It("Usage", 5)>>, <<It("Usage", 5), It("Usage", 6)>>},
        mn \in {<<>>, <<It("Usage Minimum", 1)>>, <<It("Usage Minimum", 3)>>},
        mx \in {<<>>, <<It("Usage Maximum", 2)>>},
        c \in 0..MaxCount, s \in {1, 8}, v \in 0..3}

\* one report fed from two application collections
TwoApplications ==
    <<It("Usage Page", 1), It("Usage", 2), It("Collection", 1), It("Report ID", 1),
      It("Input", 0), It("End Collection", 0), It("Usage", 4), It("Collection", 1),
      It("Input", 0), It("End Collection", 0)>>

InitStream ==
    /\ rd \in {ReportDescriptor0(its) :
                  its \in RouteStreams \cup ExpandStreams \cup {TwoApplications}}
    /\ nitems = 0 /\ npush = 0 /\ npop = 0
    /\ snaps = <<>> /\ popped = Globals0 /\ sawC5 = FALSE /\ lastItem = ""
    /\ IdleParse /\ IdlePack /\ IdleFmt /\ IdleDec /\ IdleText /\ IdleUhid

\* one turn of the loop: self._parse_item(item)
ParseNext ==
    /\ rd.status = "ok" /\ nitems < Len(rd.rdesc_items)
    /\ rd' = parse_item(rd, rd.rdesc_items[nitems + 1])
    /\ nitems' = nitems + 1
    /\ UNCHANGED <<npush, npop, snaps, popped, sawC5, lastItem>>
    /\ UNCHANGED <<parseVars, packVars, fmtVars, decVars, textVars, uhidVars>>

\* the loop is over: the del statements, and the constructor returns
ParseEnd ==
    /\ rd.status = "ok" /\ nitems = Len(rd.rdesc_items)
    /\ rd' = DropParsingState(rd)
    /\ UNCHANGED <<nitems, npush, npop, snaps, popped, sawC5, lastItem>>
    /\ UNCHANGED <<parseVars, packVars, fmtVars, decVars, textVars, uhidVars>>

NextStream == ParseNext \/ ParseEnd

SpecStream == InitStream /\ [][NextStream]_vars

-----------------------------------------------------------------------------
(* what the item list says, read off the list itself *)

\* the last of the first n items that carries one of the names, or 0
LastIndexOf(its, names, n) ==
    CHOOSE i \in 0..n : /\ (i = 0 \/ its[i].item \in names)
                        /\ \A j \in (i + 1)..n : its[j].item \notin names

\* the value of the last item of that name among the first n, or the default
ValueBefore(its, name, n, default) ==
    IF LastIndexOf(its, {name}, n) = 0 THEN default
    ELSE its[LastIndexOf(its, {name}, n)].value

\* the values of the items of that name among the first n, in list order
RECURSIVE ValuesBefore(_, _, _)
ValuesBefore(its, name, n) ==
    IF n = 0 THEN <<>>
    ELSE IF its[n].item = name THEN Append(ValuesBefore(its, name, n - 1), its[n].value)
    ELSE ValuesBefore(its, name, n - 1)

\* the whole list is parsed, it ends in one Input item and the items before
\* it only declare usages, the usage range, Report Count and Report Size
OneMainParsed ==
    /\ nitems = Len(rd.rdesc_items) /\ nitems > 0
    /\ rd.rdesc_items[nitems].item = "Input"
    /\ \A i \in 1..(nitems - 1) :
           rd.rdesc_items[i].item \in {"Usage", "Usage Minimum", "Usage Maximum",
                                       "Report Count", "Report Size"}

GivenFlags == rd.rdesc_items[nitems].value
GivenCount == ValueBefore(rd.rdesc_items, "Report Count", nitems, 0)
GivenSize == ValueBefore(rd.rdesc_items, "Report Size", nitems, 0)
GivenMin == ValueBefore(rd.rdesc_items, "Usage Minimum", nitems, 0)
GivenMax == ValueBefore(rd.rdesc_items, "Usage Maximum", nitems, 0)
GivenUsages == ValuesBefore(rd.rdesc_items, "Usage", nitems)
CompleteRange == GivenMin # 0 /\ GivenMax # 0
Parsed == rd.status \in {"ok", "done"}
ParsedFields == rd.input_reports[-1].fields

\* C23: a Variable, non-Constant Main item with both Usage Minimum and Usage
\* Maximum nonzero and Report Count n yields n fields of size Report Size and
\* count 1, the i-th (from 0) with usage min(usage_min + i, usage_max), also
\* when usage_min > usage_max and whether or not Usage items are pending
C23_RangeExpansion ==
    (OneMainParsed /\ GivenFlags = 2 /\ CompleteRange) =>
        /\ Parsed
        /\ Len(ParsedFields) = GivenCount
        /\ \A i \in 1..GivenCount :
               /\ ParsedFields[i].size = GivenSize
               /\ ParsedFields[i].count = 1
               /\ ParsedFields[i].usage =
                      <<0, IF GivenMin + i - 1 < GivenMax THEN GivenMin + i - 1
                           ELSE GivenMax>>

\* C24: a Variable, non-Constant Main item with a non-empty list U of pending
\* usages, no complete usage range and Report Count n yields n fields of size
\* Report Size and count 1, the i-th with usage U[i], or the last of U once
\* the list is used up
C24_ListExpansion ==
    (OneMainParsed /\ GivenFlags = 2 /\ ~CompleteRange /\ GivenUsages # <<>>) =>
        /\ Parsed
        /\ Len(ParsedFields) = GivenCount
        /\ \A i \in 1..GivenCount :
               /\ ParsedFields[i].size = GivenSize
               /\ ParsedFields[i].count = 1
               /\ ParsedFields[i].usage =
                      <<0, IF i <= Len(GivenUsages) THEN GivenUsages[i]
                           ELSE GivenUsages[Len(GivenUsages)]>>

\* three fields from a list of two usages: the third repeats the last usage
C24_Witness ==
    /\ OneMainParsed /\ GivenFlags = 2 /\ ~CompleteRange
    /\ Len(GivenUsages) = 2 /\ GivenCount = 3 /\ Parsed
    /\ Len(ParsedFields) = 3 /\ ParsedFields[3].usage = <<0, 6>>

\* C25: a Constant Main item yields exactly one field of size Report Size x
\* Report Count and count 1, whatever the Variable bit and the pending usages,
\* and moves the bit cursor of the report by that size
C25_ConstantPadding ==
    (OneMainParsed /\ GivenFlags % 2 = 1) =>
        /\ Parsed
        /\ Len(ParsedFields) = 1
        /\ ParsedFields[1].size = GivenSize * GivenCount
        /\ ParsedFields[1].count = 1
        /\ ParsedFields[1].start = 0
        /\ rd.input_reports[-1].bitsize = GivenSize * GivenCount

\* a Constant and Variable item with pending usages and a range: 3 x 8 bits
C25_Witness ==
    /\ OneMainParsed /\ GivenFlags = 3 /\ CompleteRange /\ GivenUsages # <<>>
    /\ GivenCount = 3 /\ GivenSize = 8 /\ Parsed
    /\ rd.input_reports[-1].bitsize = 24

\* C26: an Array Main item (Constant and Variable bits clear) yields one field
\* of size Report Size and count Report Count whose usages are the inclusive
\* range usage_min..usage_max when both are nonzero and the pending usage
\* list otherwise
C26_ArrayField ==
    (OneMainParsed /\ GivenFlags = 0) =>
        /\ Parsed
        /\ Len(ParsedFields) = 1
        /\ ParsedFields[1].size = GivenSize
        /\ ParsedFields[1].count = GivenCount
        /\ ParsedFields[1].usages =
               IF CompleteRange
               THEN [k \in 1..(GivenMax - GivenMin + 1) |-> <<0, GivenMin + k - 1>>]
               ELSE [k \in 1..Len(GivenUsages) |-> <<0, GivenUsages[k]>>]

\* an array over the range 1..2 although a usage is pending
C26_Witness ==
    /\ OneMainParsed /\ GivenFlags = 0 /\ Parsed /\ GivenCount = 3
    /\ CompleteRange /\ GivenMin = 1 /\ GivenUsages # <<>>
    /\ ParsedFields[1].usages = <<<<0, 1>>, <<0, 2>>>>

\* the item just parsed is a Main item, a Collection or a Usage Page
AfterResettingItem ==
    /\ nitems > 0 /\ rd.status = "ok"
    /\ rd.rdesc_items[nitems].item \in {"Input", "Output", "Feature", "Collection", "Usage Page"}

RECURSIVE RoutedCount(_, _, _, _)
RoutedCount(its, n, dir, k) ==
    IF n = 0 THEN 0
    ELSE RoutedCount(its, n - 1, dir, k)
         + (IF its[n].item = dir /\ ValueBefore(its, "Report ID", n, -1) = k
            THEN 1 ELSE 0)

\* every Main item parsed so far yields one field (Array or Constant)
OneFieldEach ==
    \A i \in 1..nitems :
        rd.rdesc_items[i].item \in MainItems => rd.rdesc_items[i].value # 2

ReportsGrow ==
    \A dir \in MainItems :
        /\ \A k \in DOMAIN report_lists(rd, dir) :
               /\ k \in DOMAIN report_lists(rd', dir)
               /\ report_lists(rd', dir)[k].application = report_lists(rd, dir)[k].application
               /\ report_lists(rd', dir)[k].report_ID = k
               /\ Len(report_lists(rd', dir)[k].fields) >= Len(report_lists(rd, dir)[k].fields)
               /\ SubSeq(report_lists(rd', dir)[k].fields, 1, Len(report_lists(rd, dir)[k].fields))
                      = report_lists(rd, dir)[k].fields
        /\ \A k \in DOMAIN report_lists(rd', dir) \ DOMAIN report_lists(rd, dir) :
               /\ rd.rdesc_items[nitems + 1].item = dir
               /\ k = rd.local.report_ID
               /\ report_lists(rd', dir)[k].report_ID = k
               /\ report_lists(rd', dir)[k].application = Glob(rd).application

\* C29: a direction holds one report per report ID; it is created by the
\* first Main item of that direction and report ID with the application usage
\* of that moment, which never changes; later Main items of the same direction
\* and report ID append their fields to it in item order, also from inside
\* another application collection
C29_OneReportPerID == [][ReportsGrow]_vars

\* report 1 was created inside application <<1, 2>> and got its second field
\* inside application <<1, 4>>
C29_Witness ==
    /\ rd.status = "ok" /\ rd.rdesc_items = TwoApplications
    /\ nitems = Len(TwoApplications)
    /\ DOMAIN rd.input_reports = {1}
    /\ Len(rd.input_reports[1].fields) = 2
    /\ rd.input_reports[1].application = <<1, 2>>
    /\ Glob(rd).application = <<1, 4>>
    /\ rd.input_reports[1].fields[2].application = <<1, 4>>

-----------------------------------------------------------------------------
(* HidField._set_value called directly on a buffer *)

\* largest index handed to _set_value
MaxIndex == 1

\* a buffer that holds every slot and one byte more
WriteLen == (MaxStart + MaxSize * (MaxIndex + 1)) \div 8 + 2

InitWrite ==
    /\ \E start \in 0..MaxStart, size \in 1..MaxSize :
           fld = PackerField(start, size, FALSE)
    /\ \E fill \in {0, 165, 255} : report = [i \in 1..WriteLen |-> fill]
    /\ written = 0 /\ readback = <<>> /\ fstatus = "fresh"
    /\ IdleParse /\ IdleEval /\ IdleFmt /\ IdleDec /\ IdleText /\ IdleUhid

\* field._set_value(report, v, i), v up to one above the largest value, or
\* far above it
SetValue ==
    /\ fstatus = "fresh"
    /\ \E i \in 0..MaxIndex, v \in 0..Pow2(fld.size) \cup {2 * Pow2(fld.size) + 1} :
           \E res \in {set_value(fld, report, v, i)} :
               /\ written' = [value |-> v, idx |-> i]
               /\ report' = res.report
               /\ fstatus' = IF res.err = "ok" THEN "set" ELSE res.err
    /\ UNCHANGED <<fld, readback>>
    /\ UNCHANGED <<parseVars, evalVars, fmtVars, decVars, textVars, uhidVars>>

NextWrite == SetValue

SpecWrite == InitWrite /\ [][NextWrite]_vars

\* bit b of a buffer, bit 0 being the lowest bit of the first byte
BitAt(rep, b) == (rep[b \div 8 + 1] \div Pow2(b % 8)) % 2

\* C30: _set_value with 0 <= v <= 2^size - 1 changes only the bits
\* [start + i*size, start + (i+1)*size) of the buffer, sets them to v lowest
\* bit first, and leaves every other bit of every byte as it was, the report
\* ID byte included
C30_WriteFrame ==
    [][fstatus' = "set" =>
          /\ Len(report') = Len(report)
          /\ \A b \in 0..(8 * Len(report) - 1) :
                 BitAt(report', b) =
                     IF /\ b >= fld.start + written'.idx * fld.size
                        /\ b < fld.start + (written'.idx + 1) * fld.size
                     THEN (written'.value \div Pow2(b - (fld.start + written'.idx * fld.size))) % 2
                     ELSE BitAt(report, b)]_vars

\* nine bits written into the second slot of a field that starts behind the
\* report ID byte and off a byte boundary: the write spans three bytes
C30_Witness ==
    /\ fstatus = "set" /\ fld.size = 9 /\ fld.start = 9
    /\ written = [value |-> 341, idx |-> 1]
    /\ report = <<255, 255, 87, 253, 255>>

-----------------------------------------------------------------------------
(* hidtools.uhid: UHIDDevice, its uhid fd, and the class-wide poll loop *)

\* bounds: events the kernel and udev produce in one run, and CREATE2
\* messages one device writes
MaxEvents == 2
MaxCreates == 2

\* the devices constructed
Devices == DOMAIN uhid

\* file descriptors in the order they are opened and registered: the uhid
\* fd of the first device, the udev monitor its constructor starts, then the
\* uhid fd of a second device
UdevFd == 2
FdOf(d) == d
DeviceOf(fd) == fd
Fds == DOMAIN fd_events

\* poll(None) blocks until an fd is ready
NoTimeout == -1
Timeouts == {NoTimeout, 0}

\* UHIDDevice.__init__: nothing set, not ready, not destroyed, no nodes
UHIDDevice0 ==
    [name |-> NoneVal, rdesc |-> NoneVal, info |-> NoneVal, ready |-> FALSE,
     is_destroyed |-> FALSE, device_nodes |-> 0, hidraw_nodes |-> 0]

\* the devices of a list
Members(seq) == {seq[i] : i \in 1..Len(seq)}

\* the state after the constructors of the devices of the list ds, each
\* device as dev
Constructed(ds, dev) ==
    /\ uhid = [d \in Members(ds) |-> dev]
    /\ cls_devices = ds
    /\ cls_poll = Members(ds) \cup {UdevFd}
    /\ fd_written = [d \in Members(ds) |-> <<>>]
    /\ fd_events = [fd \in Members(ds) \cup {UdevFd} |-> <<>>]
    /\ fd_cond = {}
    /\ dpc = "idle" /\ timeout = 0 /\ polled = <<>> /\ had_data = FALSE
    /\ handled = 0 /\ returned = "none" /\ raised = "none" /\ arrived = 0
    /\ IdleParse /\ IdleEval /\ IdlePack /\ IdleFmt /\ IdleDec /\ IdleText

InitUhid == Constructed(<<1>>, UHIDDevice0)

Others == <<parseVars, evalVars, packVars, fmtVars, decVars, textVars>>

\* what a step of dispatch leaves alone besides the devices and their fds
Loop == <<fd_cond, dpc, timeout, polled, had_data, handled, returned, arrived>>

\* device.name = v (None un-sets it)
SetName ==
    /\ dpc = "idle"
    /\ \E d \in Devices, v \in {NoneVal, <<"name">>} :
           uhid' = [uhid EXCEPT ![d].name = v]
    /\ raised' = "none"
    /\ UNCHANGED <<cls_devices, cls_poll, fd_written, fd_events, Loop, Others>>

\* device.rdesc = bytes: parsed, and the bytes of the parsed descriptor kept
SetRdesc ==
    /\ dpc = "idle"
    /\ \E d \in Devices : uhid' = [uhid EXCEPT ![d].rdesc = <<"rdesc">>]
    /\ raised' = "none"
    /\ UNCHANGED <<cls_devices, cls_poll, fd_written, fd_events, Loop, Others>>

\* device.info = (bus, vid, pid)
SetInfo ==
    /\ dpc = "idle"
    /\ \E d \in Devices : uhid' = [uhid EXCEPT ![d].info = <<"info">>]
    /\ raised' = "none"
    /\ UNCHANGED <<cls_devices, cls_poll, fd_written, fd_events, Loop, Others>>

Count(s, m) == Cardinality({i \in 1..Len(s) : s[i] = m})

\* the mistaken test that looks at the name only
NamelessOnly(dev) == dev.name = NoneVal

Incomplete(dev) == dev.name = NoneVal \/ dev.rdesc = NoneVal \/ dev.info = NoneVal

\* device.create_kernel_device(); os.write either takes the whole message
\* or raises OSError, as it does on the closed fd of a destroyed device
create_kernel_device(d, wrote) ==
    IF Incomplete(uhid[d])
    THEN /\ raised' = "UHIDIncompleteException"
         /\ UNCHANGED <<uhid, fd_written>>
    ELSE IF ~wrote \/ uhid[d].is_destroyed
    THEN /\ raised' = "OSError"
         /\ UNCHANGED <<uhid, fd_written>>
    ELSE /\ raised' = "ok"
         /\ fd_written' = [fd_written EXCEPT ![d] = Append(@, "CREATE2")]
         /\ uhid' = [uhid EXCEPT ![d].ready = TRUE]

CreateKernelDevice ==
    /\ dpc = "idle"
    /\ \E d \in Devices, wrote \in BOOLEAN :
           /\ Count(fd_written[d], "CREATE2") < MaxCreates
           /\ create_kernel_device(d, wrote)
    /\ UNCHANGED <<cls_devices, cls_poll, fd_events, Loop, Others>>

\* the kernel queues an event on the uhid fd of a device it holds
KernelEvent ==
    /\ arrived < MaxEvents
    /\ \E d \in Devices, e \in {"START", "GET_REPORT", "SET_REPORT"} :
           /\ uhid[d].ready
           /\ fd_events' = [fd_events EXCEPT ![FdOf(d)] = Append(@, e)]
    /\ arrived' = arrived + 1
    /\ UNCHANGED <<uhid, cls_devices, cls_poll, fd_written, fd_cond, dpc, timeout, polled, had_data, handled, returned, raised>>
    /\ UNCHANGED Others

\* udev announces a node ("add") of a device the kernel has created: an
\* event node (/dev/input/event*) or a hidraw node (/dev/hidraw*)
UdevEvent ==
    /\ arrived < MaxEvents
    /\ \E d \in Devices, node \in {"event", "hidraw"} :
           /\ Count(fd_written[d], "CREATE2") > 0
           /\ fd_events' = [fd_events EXCEPT ![UdevFd] = Append(@, <<d, node>>)]
    /\ arrived' = arrived + 1
    /\ UNCHANGED <<uhid, cls_devices, cls_poll, fd_written, fd_cond, dpc, timeout, polled, had_data, handled, returned, raised>>
    /\ UNCHANGED Others

\* an open fd starts to report a condition other than POLLIN (POLLERR,
\* POLLHUP), which stays until somebody deals with the fd
FdCondition ==
    /\ fd_cond = {}
    /\ \E fd \in cls_poll : fd_cond' = {fd}
    /\ UNCHANGED <<uhid, cls_devices, cls_poll, fd_written, fd_events, dpc, timeout, polled, had_data, handled, returned, raised, arrived>>
    /\ UNCHANGED Others

\* what cls._poll.poll returns at once: the registered fds with something to
\* report
RECURSIVE PollList(_)
PollList(fd) ==
    IF fd \notin Fds THEN <<>>
    ELSE (IF fd \in cls_poll /\ (fd_events[fd] # <<>> \/ fd \in fd_cond)
          THEN <<[fd |-> fd, pollin |-> fd_events[fd] # <<>>]>> ELSE <<>>)
         \o PollList(fd + 1)

\* UHIDDevice.dispatch(timeout) up to its first poll
DispatchCall ==
    /\ dpc = "idle"
    /\ \E t \in Timeouts : timeout' = t
    /\ dpc' = "poll" /\ had_data' = FALSE /\ handled' = 0 /\ polled' = <<>>
    /\ returned' = "none"
    /\ UNCHANGED <<uhid, cls_devices, cls_poll, fd_written, fd_events, fd_cond, raised, arrived>>
    /\ UNCHANGED Others

\* cls._poll.poll(timeout) returns: at once when an fd is ready, with an
\* empty list when the timeout runs out, and not at all without a timeout;
\* an empty list ends the loop and dispatch returns had_data
Poll ==
    /\ dpc \in {"poll", "poll_again"}
    /\ PollList(1) # <<>> \/ timeout # NoTimeout
    /\ polled' = PollList(1)
    /\ had_data' = (had_data \/ dpc = "poll_again")
    /\ IF PollList(1) # <<>>
       THEN dpc' = "for" /\ UNCHANGED returned
       ELSE /\ dpc' = "idle"
            /\ returned' = IF had_data \/ dpc = "poll_again" THEN "True" ELSE "False"
    /\ UNCHANGED <<uhid, cls_devices, cls_poll, fd_written, fd_events, fd_cond, timeout, handled, raised, arrived>>
    /\ UNCHANGED Others

\* the devices, the registry, the poll object and the fds, as the value the
\* methods below work on
Cls ==
    [uhid |-> uhid, cls_devices |-> cls_devices, cls_poll |-> cls_poll,
     fd_written |-> fd_written, fd_events |-> fd_events]

Becomes(s) ==
    /\ uhid' = s.uhid /\ cls_devices' = s.cls_devices /\ cls_poll' = s.cls_poll
    /\ fd_written' = s.fd_written /\ fd_events' = s.fd_events

\* the reply _call_get_report and _call_set_report write
ReplyTo(e) == IF e = "GET_REPORT" THEN "GET_REPORT_REPLY" ELSE "SET_REPORT_REPLY"

\* a handler that answers whether the device is ready or not
process_one_event_replying(s, d) ==
    [s EXCEPT !.fd_events[FdOf(d)] = Tail(@),
              !.fd_written[d] =
                  IF Head(s.fd_events[FdOf(d)]) \in {"GET_REPORT", "SET_REPORT"}
                  THEN Append(@, ReplyTo(Head(s.fd_events[FdOf(d)]))) ELSE @]

\* UHIDDevice._process_one_event: read one event; a GET_REPORT or a
\* SET_REPORT is answered (get_report and set_report return EIO) if the
\* device is ready
process_one_event(s, d) ==
    [s EXCEPT !.fd_events[FdOf(d)] = Tail(@),
              !.fd_written[d] =
                  IF /\ Head(s.fd_events[FdOf(d)]) \in {"GET_REPORT", "SET_REPORT"}
                     /\ s.uhid[d].ready
                  THEN Append(@, ReplyTo(Head(s.fd_events[FdOf(d)]))) ELSE @]

InRegistry(s, d) == d \in Members(s.cls_devices)

\* UHIDDevice._udev_event for the events of the monitor that are about d:
\* nothing if the device is not ready, a node per "add" event otherwise
udev_event(s, d, events) ==
    IF ~s.uhid[d].ready THEN s.uhid[d]
    ELSE [s.uhid[d] EXCEPT !.device_nodes = @ + Count(events, <<d, "event">>),
                           !.hidraw_nodes = @ + Count(events, <<d, "hidraw">>)]

\* UHIDDevice._cls_udev_event_callback: drain the monitor and hand every
\* event to the device of cls._devices it is about
cls_udev_event_callback(s) ==
    [s EXCEPT !.fd_events[UdevFd] = <<>>,
              !.uhid = [d \in DOMAIN s.uhid |->
                           IF InRegistry(s, d)
                           THEN udev_event(s, d, s.fd_events[UdevFd])
                           ELSE s.uhid[d]]]

\* the loop of destroy: the handler of the device is called as long as its
\* fd has an event
RECURSIVE drain(_, _)
drain(s, d) ==
    IF s.fd_events[FdOf(d)] = <<>> THEN s ELSE drain(process_one_event(s, d), d)

\* the first half of destroy for a ready device: UHID_DESTROY written, the
\* device no longer ready, its fd drained
destroy_ready(s, d) ==
    drain([s EXCEPT !.fd_written[d] = Append(@, "DESTROY"),
                    !.uhid[d].ready = FALSE], d)

\* list.remove
Remove(seq, x) == SelectSeq(seq, LAMBDA y : y # x)

\* the second half of destroy: out of the registry and of the poll object,
\* the fd closed, the node lists cleared
destroy_rest(s, d) ==
    [s EXCEPT !.cls_devices = Remove(@, d),
              !.cls_poll = @ \ {FdOf(d)},
              !.uhid[d].is_destroyed = TRUE,
              !.uhid[d].device_nodes = 0,
              !.uhid[d].hidraw_nodes = 0]

\* device.destroy(): how it ends and the state it leaves.  An fd that
\* reports POLLHUP keeps the loop going with nothing to read, and the
\* assert of the handler on the length read fails; _devices.remove raises
\* for a device that is not in the list
destroy(s, d) ==
    IF s.uhid[d].ready /\ FdOf(d) \in fd_cond
    THEN [err |-> "AssertionError", s |-> destroy_ready(s, d)]
    ELSE IF s.uhid[d].ready
    THEN [err |-> "ok", s |-> destroy_rest(destroy_ready(s, d), d)]
    ELSE IF ~InRegistry(s, d) THEN [err |-> "ValueError", s |-> s]
    ELSE [err |-> "ok", s |-> destroy_rest(s, d)]

Destroy ==
    /\ dpc = "idle"
    /\ \E d \in Devices : \E res \in {destroy(Cls, d)} :
           Becomes(res.s) /\ raised' = res.err
    /\ UNCHANGED <<Loop, Others>>

\* device.__exit__(): destroy unless destroyed
Exit ==
    /\ dpc = "idle"
    /\ \E d \in Devices :
           IF uhid[d].is_destroyed THEN Becomes(Cls) /\ raised' = "ok"
           ELSE \E res \in {destroy(Cls, d)} : Becomes(res.s) /\ raised' = res.err
    /\ UNCHANGED <<Loop, Others>>

\* fun() for the function cls._polling_functions holds for fd
fun(s, fd) ==
    IF fd = UdevFd THEN cls_udev_event_callback(s)
    ELSE process_one_event(s, DeviceOf(fd))

\* the handler of fd reaches a callback of a device (start, get_report,
\* set_report; udev_event for an event about a ready device of the list)
CallsBack(fd) ==
    fd # UdevFd \/ \E d \in Devices :
                      /\ InRegistry(Cls, d) /\ uhid[d].ready
                      /\ \E i \in 1..Len(fd_events[UdevFd]) : fd_events[UdevFd][i][1] = d

\* one round of `for fd, mask in devices`: the handler of the fd is called
\* if the mask has POLLIN, and a callback it reaches may destroy one of the
\* devices of Destroyers; os.read on the fd of a destroyed device raises
\* OSError (EBADF), which ends dispatch
HandleWith(Destroyers) ==
    /\ dpc = "for" /\ polled # <<>>
    /\ IF ~Head(polled).pollin
       THEN /\ Becomes(Cls)
            /\ polled' = Tail(polled)
            /\ dpc' = IF Tail(polled) = <<>> THEN "poll_again" ELSE "for"
            /\ UNCHANGED <<handled, raised>>
       ELSE IF Head(polled).fd # UdevFd /\ uhid[DeviceOf(Head(polled).fd)].is_destroyed
       THEN /\ Becomes(Cls)
            /\ handled' = handled + 1
            /\ polled' = <<>> /\ dpc' = "idle" /\ raised' = "OSError"
       ELSE /\ \/ Becomes(fun(Cls, Head(polled).fd))
               \/ /\ CallsBack(Head(polled).fd)
                  /\ \E d \in Destroyers : \E res \in {destroy(fun(Cls, Head(polled).fd), d)} :
                         res.err = "ok" /\ Becomes(res.s)
            /\ handled' = handled + 1
            /\ polled' = Tail(polled)
            /\ dpc' = IF Tail(polled) = <<>> THEN "poll_again" ELSE "for"
            /\ UNCHANGED raised
    /\ UNCHANGED <<fd_cond, timeout, had_data, returned, arrived>>
    /\ UNCHANGED Others

\* the callbacks of UHIDDevice itself do nothing
Handle == HandleWith({})

NextUhid ==
    \/ SetName \/ SetRdesc \/ SetInfo \/ CreateKernelDevice
    \/ KernelEvent \/ UdevEvent \/ FdCondition
    \/ DispatchCall \/ Poll \/ Handle \/ Destroy \/ Exit

SpecUhid == InitUhid /\ [][NextUhid]_vars

\* dispatch is straight-line code of the calling thread: it takes its next
\* step whenever it can
SpecDispatch == SpecUhid /\ WF_vars(Poll) /\ WF_vars(Handle)

\* two devices of a subclass whose callbacks may call destroy, each with its
\* name, report descriptor and info set
InitDestroy ==
    Constructed(<<1, 3>>, [UHIDDevice0 EXCEPT !.name = <<"name">>,
                                              !.rdesc = <<"rdesc">>,
                                              !.info = <<"info">>])

HandleDestroying == HandleWith(Devices)

NextDestroy ==
    \/ CreateKernelDevice \/ KernelEvent \/ UdevEvent
    \/ DispatchCall \/ Poll \/ HandleDestroying \/ Destroy \/ Exit

SpecDestroy == InitDestroy /\ [][NextDestroy]_vars

\* C21: create_kernel_device raises UHIDIncompleteException whenever the
\* name, the report descriptor or the info is unset, and then writes nothing
\* to the uhid fd and leaves the device as ready as it was; a device becomes
\* ready only in the step that writes CREATE2 to its fd
C21_CreationPrecondition ==
    [][/\ \A d \in Devices :
              (CreateKernelDevice /\ (uhid[d].name = NoneVal \/ uhid[d].rdesc = NoneVal
                                        \/ uhid[d].info = NoneVal)) =>
                  /\ raised' = "UHIDIncompleteException"
                  /\ fd_written' = fd_written
                  /\ uhid'[d].ready = uhid[d].ready
       /\ \A d \in Devices :
              (~uhid[d].ready /\ uhid'[d].ready) =>
                  fd_written'[d] = Append(fd_written[d], "CREATE2")]_vars

\* the call was refused with only the info missing: nothing on the fd, the
\* device not ready
C21_Witness ==
    /\ raised = "UHIDIncompleteException"
    /\ uhid[1].name # NoneVal /\ uhid[1].rdesc # NoneVal /\ uhid[1].info = NoneVal
    /\ fd_written[1] = <<>> /\ ~uhid[1].ready

\* C22: once no further events arrive, every call of dispatch returns, also
\* with the default timeout of None and when a polled fd reports a condition
\* other than POLLIN, and it returns True if at least one event was handled
\* and False otherwise
C22_DispatchReturns ==
    /\ (dpc # "idle") ~> (dpc = "idle")
    /\ [](returned # "none" => (returned = "True" <=> handled > 0))

\* message i on the uhid fd of d lies between a CREATE2 and the next DESTROY
WhileCreated(d, i) ==
    \E j \in 1..(i - 1) :
        /\ fd_written[d][j] = "CREATE2"
        /\ \A k \in (j + 1)..(i - 1) : fd_written[d][k] # "DESTROY"

\* every reply on a uhid fd follows a CREATE2 with no DESTROY in between,
\* and a destroyed device has no node and is not in the registry
RepliesWhileCreated ==
    \A d \in Devices :
        /\ \A i \in 1..Len(fd_written[d]) :
               fd_written[d][i] \in {"GET_REPORT_REPLY", "SET_REPORT_REPLY"}
                   => WhileCreated(d, i)
        /\ uhid[d].is_destroyed =>
               /\ uhid[d].device_nodes = 0 /\ uhid[d].hidraw_nodes = 0
               /\ ~InRegistry(Cls, d) /\ ~uhid[d].ready

\* C38: a GET_REPORT or SET_REPORT reply is written to the uhid fd, and a
\* udev "add" event adds to device_nodes or hidraw_nodes, only between a
\* successful create_kernel_device and the start of destroy; the events
\* destroy drains get no reply, and once destroy has returned both node
\* lists are empty and the device is out of the registry
C38_OnlyWhileReady ==
    /\ []RepliesWhileCreated
    /\ [][\A d \in Devices :
              (\/ uhid'[d].device_nodes > uhid[d].device_nodes
               \/ uhid'[d].hidraw_nodes > uhid[d].hidraw_nodes)
                 => /\ uhid[d].ready /\ ~uhid[d].is_destroyed
                    /\ WhileCreated(d, Len(fd_written[d]) + 1)]_vars

\* dispatch was never called: destroy has drained both events of the
\* kernel from the fd and has answered none
C38_Witness ==
    /\ uhid[1].is_destroyed /\ fd_written[1] = <<"CREATE2", "DESTROY">>
    /\ arrived = 2 /\ fd_events[1] = <<>> /\ fd_events[UdevFd] = <<>>
    /\ dpc = "idle" /\ returned = "none" /\ cls_devices = <<>>

\* C39 as stated: dispatch calls no handler for the fd of a destroyed
\* device, whichever callback of the same poll batch destroyed it, and a
\* destroyed device is not destroyed again: nothing more is written to its
\* fd and the registry stays as it is
C39_NoHandlerAfterDestroy ==
    [][/\ (dpc = "for" /\ handled' = handled + 1 /\ Head(polled).fd # UdevFd)
            => ~uhid[DeviceOf(Head(polled).fd)].is_destroyed
       /\ \A d \in Devices :
              uhid[d].is_destroyed =>
                  /\ fd_written'[d] = fd_written[d]
                  /\ uhid'[d].is_destroyed]_vars

C32_PayloadValid ==
    \A t \in DOMAIN pc :
        pc[t] = "done" =>
            /\ Len(r[t]) = ReportSize(hidReport.rep)
            /\ \A i \in 1..Len(r[t]) : r[t][i] \in 0..255

\* the report holds a non-constant field whose count is not 1
MiscountedField(rep) ==
    \E i \in 1..Len(rep.fields) : ~FieldConst(rep.fields[i]) /\ rep.fields[i].count # 1

\* C33: format_report hands set_values one value per non-constant field, so
\* it raises for every report with a non-constant field whose count is not 1
\* and succeeds for every other report when the values fit
C33_ShapeCheck ==
    pc[1] \notin {"idle", "loop"} =>
        IF MiscountedField(hidReport.rep) THEN pc[1] = "Exception"
        ELSE AllSelectedFit(1) => pc[1] = "done"

-----------------------------------------------------------------------------
(* HidRDescItem.from_bytes on the bytes of one item *)

\* the tags: Usage, Logical Minimum and Maximum, Physical Minimum and
\* Maximum, Unit Exponent, Input, Report Count
TagHids == {8, 20, 36, 52, 68, 84, 128, 148}
SignedHids == {20, 52}

\* payload bytes around the sign bit and around the Unit Exponent limit
PayloadVals == {0, 7, 8, 15, 127, 128, 255}

\* the payload width a size code announces
WidthOf(code) == IF code = 3 THEN 4 ELSE code

\* a header and a payload of the announced width or cut short; a 4-byte
\* payload read as unsigned stays below 2^31
ItemStringsOf(hid, code) ==
    {<<hid + code>> \o p :
        p \in {q \in UNION {[1..n -> PayloadVals] : n \in {0, 1, 2, 4}} :
                  /\ Len(q) <= WidthOf(code)
                  /\ (Len(q) = 4 /\ hid \notin SignedHids) => q[4] < 128}}

ItemStrings == UNION {ItemStringsOf(hid, code) : hid \in TagHids, code \in 1..3}

InitItem ==
    /\ rdesc \in ItemStrings
    /\ idx = 0 /\ items = <<>> /\ pstatus = "parsing"
    /\ IdleEval /\ IdlePack /\ IdleFmt /\ IdleDec /\ IdleText /\ IdleUhid

SpecItem == InitItem /\ [][NextBytes]_vars

\* the payload read as an unsigned little-endian number, and as a two's
\* complement number of the payload's width
UnsignedLE(raw) ==
    raw[1] + (IF Len(raw) >= 2 THEN 256 * raw[2] ELSE 0)
           + (IF Len(raw) >= 4 THEN 65536 * raw[3] + 16777216 * raw[4] ELSE 0)

SignedLE(raw) ==
    IF raw[Len(raw)] < 128 THEN UnsignedLE(raw)
    ELSE UnsignedLE([raw EXCEPT ![Len(raw)] = @ - 256])

\* C34: with a payload of 1, 2 or 4 bytes a decoded Logical Minimum or
\* Physical Minimum has the two's-complement value of the little-endian
\* payload at the payload's width, a Unit Exponent payload p > 7 decodes to
\* p - 16, every other tag (Logical Maximum and Physical Maximum included)
\* keeps the unsigned value, and raw_value holds the payload bytes
C34_SignedDecode ==
    \A k \in 1..Len(items) :
        Len(items[k].raw_value) \in {1, 2, 4} =>
            /\ items[k].raw_value = Tail(rdesc)
            /\ items[k].hid = rdesc[1] - (rdesc[1] % 4)
            /\ items[k].value =
                   IF items[k].hid \in SignedHids THEN SignedLE(Tail(rdesc))
                   ELSE IF items[k].hid = 84 /\ UnsignedLE(Tail(rdesc)) > 7
                   THEN UnsignedLE(Tail(rdesc)) - 16
                   ELSE UnsignedLE(Tail(rdesc))

\* Physical Minimum ff ff ff 80 decoded to -2^31 + 2^24 - 1
C34_Witness ==
    /\ rdesc = <<55, 255, 255, 255, 128>> /\ Len(items) = 1
    /\ items[1].item = "Physical Minimum" /\ items[1].value = -2130706433
    /\ items[1].raw_value = <<255, 255, 255, 128>>

=============================================================================
